---- MODULE Spec2Model ----
(***************************************************************************)
(* Model of the Kent repertory scraper (final_scrap.py) and of the         *)
(* homeopathic data processor (data_process.py).                           *)
(*                                                                         *)
(* Python strings are sequences of code points (TLC strings are atomic);   *)
(* every literal carries the text it spells in a comment.  Python dicts    *)
(* keep insertion order, so a dict is a sequence of <<key, value>> pairs   *)
(* with pairwise distinct keys.                                            *)
(***************************************************************************)
EXTENDS Integers, Sequences, FiniteSets, TLC

\* ------------------------------------------------------------------ bounds

\* Pages scraped in one run of scrape_all_pages.
MaxPages == 3

\* process_all calls made on one processor object.
MaxLoads == 2

\* Longest body-part list and longest symptom list of a query.
MaxQuery == 2

\* The number of links scrape_repertory_section visits.
MaxLinks == 3

\* ------------------------------------------------------- character classes

UpperChars == 65..90
LowerChars == 97..122
AlphaChars == UpperChars \cup LowerChars
DigitChars == 48..57
\* str.strip() and the regex class \s, on ASCII: space \t \n \v \f \r
SpaceChars == {32, 9, 10, 11, 12, 13}
\* the regex class \w, on ASCII
WordChars == AlphaChars \cup DigitChars \cup {95}
\* [A-Z\s\-] of the header pattern
HeaderChars == UpperChars \cup SpaceChars \cup {45}
\* [A-Za-z-] of the medicine pattern
MedChars == AlphaChars \cup {45}
\* the characters of sub_part.strip(' ,.')
SubStripChars == {32, 44, 46}
\* [-:,.\s] of normalize_symptom_name
PunctChars == {45, 58, 44, 46} \cup SpaceChars

\* ------------------------------------------------------------ Python str

None == <<>>

\* The last index e >= j-1 such that s[j..e] lies in the class C (a greedy run).
RunEnd(s, j, C) ==
    CHOOSE e \in (j - 1)..Len(s) :
        /\ \A k \in j..e : s[k] \in C
        /\ (e = Len(s) \/ s[e + 1] \notin C)

\* s.strip(chars)
StripChars(s, C) ==
    LET keep == {k \in 1..Len(s) : s[k] \notin C}
    IN  IF keep = {} THEN <<>>
        ELSE LET f == CHOOSE k \in keep : \A m \in keep : k <= m
                 l == CHOOSE k \in keep : \A m \in keep : k >= m
             IN  SubSeq(s, f, l)

\* s.strip()
Strip(s) == StripChars(s, SpaceChars)

\* s.rstrip(chars)
RStripChars(s, C) ==
    LET keep == {k \in 1..Len(s) : s[k] \notin C}
    IN  IF keep = {} THEN <<>>
        ELSE SubSeq(s, 1, CHOOSE k \in keep : \A m \in keep : k >= m)

LowerChar(c) == IF c \in UpperChars THEN c + 32 ELSE c
UpperChar(c) == IF c \in LowerChars THEN c - 32 ELSE c

\* s.lower()
Lower(s) == [k \in 1..Len(s) |-> LowerChar(s[k])]

\* s.capitalize()
Capitalize(s) ==
    [k \in 1..Len(s) |-> IF k = 1 THEN UpperChar(s[k]) ELSE LowerChar(s[k])]

\* a < b for str: lexicographic on code points
StrLess(a, b) ==
    \E k \in 1..(Len(b)) :
        /\ \A m \in 1..(k - 1) : m <= Len(a) /\ a[m] = b[m]
        /\ (k > Len(a) \/ a[k] < b[k])

\* sub in s
Contains(s, sub) ==
    \E p \in 1..(Len(s) - Len(sub) + 1) : SubSeq(s, p, p + Len(sub) - 1) = sub

\* c in s, for a single character c
HasChar(s, c) == \E k \in 1..Len(s) : s[k] = c

\* s.split(c, 1) of a string that contains c: <<before, after>>
SplitFirst(s, c) ==
    LET p == CHOOSE k \in 1..Len(s) : s[k] = c /\ \A m \in 1..(k - 1) : s[m] # c
    IN  <<SubSeq(s, 1, p - 1), SubSeq(s, p + 1, Len(s))>>

\* the set of a list's elements
Range(seq) == {seq[k] : k \in 1..Len(seq)}

\* sorted(S) of a set of strings
RECURSIVE Sorted(_)
Sorted(S) ==
    IF S = {} THEN <<>>
    ELSE LET m == CHOOSE x \in S : \A y \in S \ {x} : StrLess(x, y)
         IN  <<m>> \o Sorted(S \ {m})

\* ----------------------------------------------------------- Python dict

EmptyDict == <<>>

\* k in d
Has(d, k) == \E j \in 1..Len(d) : d[j][1] = k

\* d[k]
Get(d, k) == d[CHOOSE j \in 1..Len(d) : d[j][1] = k][2]

\* d[k] = v
Put(d, k, v) ==
    IF Has(d, k)
    THEN LET j == CHOOSE j \in 1..Len(d) : d[j][1] = k
         IN  SubSeq(d, 1, j - 1) \o << <<k, v>> >> \o SubSeq(d, j + 1, Len(d))
    ELSE Append(d, <<k, v>>)

\* d.setdefault(k, v)
SetDefault(d, k, v) == IF Has(d, k) THEN d ELSE Append(d, <<k, v>>)

\* list(d.keys()), in insertion order
KeySeq(d) == [j \in 1..Len(d) |-> d[j][1]]

\* set(d.keys())
Keys(d) == {d[j][1] : j \in 1..Len(d)}

\* ------------------------------------------------------------- parse_lines

\* re.match(r'^p\.\s*\d+$', s): "p." then spaces then one or more digits
IsPageNumber(s) ==
    /\ Len(s) >= 3
    /\ s[1] = 112 /\ s[2] = 46
    /\ LET e == RunEnd(s, 3, SpaceChars)
       IN  /\ e < Len(s)
           /\ \A k \in (e + 1)..Len(s) : s[k] \in DigitChars

\* re.match(r'^([A-Z][A-Z\s\-]+)(.*)$', line) succeeds
HeaderMatches(line) ==
    /\ Len(line) >= 2
    /\ line[1] \in UpperChars
    /\ line[2] \in HeaderChars

\* match.group(1): the greedy run of [A-Z\s\-] after the first capital
HeaderGroup1(line) == SubSeq(line, 1, RunEnd(line, 2, HeaderChars))

\* match.group(2): the rest of the line
HeaderGroup2(line) == SubSeq(line, RunEnd(line, 2, HeaderChars) + 1, Len(line))

\* {0,20} of the medicine pattern
MedRunMax == 20

\* The pattern \b[A-Za-z][A-Za-z-]{0,20}\. matches at position p of s.
MedMatchAt(s, p) ==
    /\ s[p] \in AlphaChars
    /\ (p = 1 \/ s[p - 1] \notin WordChars)
    /\ LET e == RunEnd(s, p + 1, MedChars)
       IN  /\ e - p <= MedRunMax
           /\ e + 1 <= Len(s)
           /\ s[e + 1] = 46

\* re.findall(r'\b[A-Za-z][A-Za-z-]{0,20}\.', s), scanning from position p
RECURSIVE FindMeds(_, _)
FindMeds(s, p) ==
    IF p > Len(s) THEN <<>>
    ELSE IF MedMatchAt(s, p)
         THEN LET e == RunEnd(s, p + 1, MedChars) + 1
              IN  <<SubSeq(s, p, e)>> \o FindMeds(s, e + 1)
         ELSE FindMeds(s, p + 1)

\* [m.rstrip('.').strip().capitalize() for m in meds_raw]
CleanMeds(meds_raw) ==
    [k \in 1..Len(meds_raw) |-> Capitalize(Strip(RStripChars(meds_raw[k], {46})))]

\* "general"
General == <<103,101,110,101,114,97,108>>

\* Mutant: a colon that opens the remainder is skipped before the split.
SubSymptomSkipColon(remainder) ==
    LET rest == IF remainder # <<>> /\ remainder[1] = 58
                THEN SubSeq(remainder, 2, Len(remainder))
                ELSE remainder
    IN  IF HasChar(rest, 58)
        THEN LET sub == StripChars(SplitFirst(rest, 58)[1], SubStripChars)
             IN  IF sub = <<>> THEN General ELSE sub
        ELSE General

\* The sub-symptom of a remainder: the text before its first ':' stripped of
\* ' ,.', or "general".
SubSymptomOf(remainder) ==
    IF HasChar(remainder, 58)
    THEN LET sub == StripChars(SplitFirst(remainder, 58)[1], SubStripChars)
         IN  IF sub = <<>> THEN General ELSE sub
    ELSE General

\* The medicines part of a remainder.
MedsPartOf(remainder) ==
    IF HasChar(remainder, 58) THEN SplitFirst(remainder, 58)[2] ELSE Strip(remainder)

\* data[bp][sym][sub].extend(medicines), with the three setdefault calls
Store(data, bp, sym, sub, medicines) ==
    LET d1   == SetDefault(data, bp, EmptyDict)
        syms == SetDefault(Get(d1, bp), sym, EmptyDict)
        subs == SetDefault(Get(syms, sym), sub, <<>>)
        leaf == Get(subs, sub) \o medicines
    IN  Put(d1, bp, Put(syms, sym, Put(subs, sub, leaf)))

\* Mutant: the test for an empty medicines list is dropped.
ShouldStoreAlways(body_part, symptom, medicines) ==
    body_part # None /\ symptom # None

\* Mutant: the body part is not asked for.
ShouldStoreNoBodyPart(body_part, symptom, medicines) ==
    symptom # None /\ medicines # <<>>

\* "if current_body_part and current_symptom and medicines:"
ShouldStore(body_part, symptom, medicines) ==
    body_part # None /\ symptom # None /\ medicines # <<>>

\* The state of parse_lines before its loop (lines 171-175; i counts from 1).
ParseStart ==
    [i |-> 1, current_body_part |-> None, current_symptom |-> None, data |-> EmptyDict]

\* One iteration that takes every body-part name for a marker ("if line in
\* body_parts:" for the condition of line 180).
ParseStepAnyName(st, lines, body_parts) ==
    LET line == lines[st.i]
    IN  IF line \in body_parts
        THEN [st EXCEPT !.i = st.i + 2,
                        !.current_body_part = line,
                        !.current_symptom = None]
        ELSE IF ~HeaderMatches(line) /\ st.current_symptom = None
        THEN [st EXCEPT !.i = st.i + 1]
        ELSE LET sym       == IF HeaderMatches(line)
                              THEN Strip(HeaderGroup1(line))
                              ELSE st.current_symptom
                 remainder == IF HeaderMatches(line)
                              THEN Strip(HeaderGroup2(line))
                              ELSE line
                 medicines == CleanMeds(FindMeds(MedsPartOf(remainder), 1))
             IN  [st EXCEPT
                    !.i = st.i + 1,
                    !.current_symptom = sym,
                    !.data = IF ShouldStore(st.current_body_part, sym, medicines)
                             THEN Store(st.data, st.current_body_part, sym,
                                        SubSymptomOf(remainder), medicines)
                             ELSE st.data]

\* One iteration that advances by one line at a body-part marker ("i += 1" for
\* the "i += 2" of line 183): the page-number line is examined as a line.
ParseStepNoSkip(st, lines, body_parts) ==
    LET line == lines[st.i]
    IN  IF /\ line \in body_parts
           /\ st.i + 1 <= Len(lines)
           /\ IsPageNumber(Lower(lines[st.i + 1]))
        THEN [st EXCEPT !.i = st.i + 1,
                        !.current_body_part = line,
                        !.current_symptom = None]
        ELSE IF ~HeaderMatches(line) /\ st.current_symptom = None
        THEN [st EXCEPT !.i = st.i + 1]
        ELSE LET sym       == IF HeaderMatches(line)
                              THEN Strip(HeaderGroup1(line))
                              ELSE st.current_symptom
                 remainder == IF HeaderMatches(line)
                              THEN Strip(HeaderGroup2(line))
                              ELSE line
                 medicines == CleanMeds(FindMeds(MedsPartOf(remainder), 1))
             IN  [st EXCEPT
                    !.i = st.i + 1,
                    !.current_symptom = sym,
                    !.data = IF ShouldStore(st.current_body_part, sym, medicines)
                             THEN Store(st.data, st.current_body_part, sym,
                                        SubSymptomOf(remainder), medicines)
                             ELSE st.data]

\* One iteration of the while loop of parse_lines, on the parser state
\* st = [i, current_body_part, current_symptom, data].
ParseStep(st, lines, body_parts) ==
    LET line == lines[st.i]
    IN  IF /\ line \in body_parts
           /\ st.i + 1 <= Len(lines)
           /\ IsPageNumber(Lower(lines[st.i + 1]))
        THEN [st EXCEPT !.i = st.i + 2,
                        !.current_body_part = line,
                        !.current_symptom = None]
        ELSE IF ~HeaderMatches(line) /\ st.current_symptom = None
        THEN [st EXCEPT !.i = st.i + 1]
        ELSE LET sym       == IF HeaderMatches(line)
                              THEN Strip(HeaderGroup1(line))
                              ELSE st.current_symptom
                 remainder == IF HeaderMatches(line)
                              THEN Strip(HeaderGroup2(line))
                              ELSE line
                 medicines == CleanMeds(FindMeds(MedsPartOf(remainder), 1))
             IN  [st EXCEPT
                    !.i = st.i + 1,
                    !.current_symptom = sym,
                    !.data = IF ShouldStore(st.current_body_part, sym, medicines)
                             THEN Store(st.data, st.current_body_part, sym,
                                        SubSymptomOf(remainder), medicines)
                             ELSE st.data]

\* The while loop of parse_lines.
RECURSIVE ParseLoop(_, _, _)
ParseLoop(st, lines, body_parts) ==
    IF st.i > Len(lines) THEN st
    ELSE ParseLoop(ParseStep(st, lines, body_parts), lines, body_parts)

\* "Clean duplicates": every leaf becomes sorted(set(leaf)).
CleanLeaves(data) ==
    [b \in 1..Len(data) |->
        <<data[b][1],
          [s \in 1..Len(data[b][2]) |->
              <<data[b][2][s][1],
                [u \in 1..Len(data[b][2][s][2]) |->
                    <<data[b][2][s][2][u][1],
                      Sorted(Range(data[b][2][s][2][u][2]))>>]>>]>>]

\* parse_lines(lines, body_parts)
parse_lines(lines, body_parts) ==
    CleanLeaves(ParseLoop(ParseStart, lines, body_parts).data)

\* -------------------------------------------------------------- merge_data

\* Mutant: the page's medicines are appended, as parse_lines does with extend.
CombinedExtend(existing, medicines) == existing \o medicines

\* Mutant: the page's medicines replace the leaf.
CombinedOverwrite(existing, medicines) == Sorted(Range(medicines))

\* Mutant: deduplicated, but the sort is forgotten.
CombinedUnsorted(existing, medicines) ==
    existing \o SelectSeq(Sorted(Range(medicines)), LAMBDA m : m \notin Range(existing))

\* "combined = sorted(existing | new_meds)" of the lists existing and medicines
Combined(existing, medicines) == Sorted(Range(existing) \cup Range(medicines))

\* The innermost loop with the merge under the test of line 237: a leaf the
\* repertory already holds is left as it is.
RECURSIVE MergeSubsNewOnly(_, _, _)
MergeSubsNewOnly(acc, sub_symptoms, k) ==
    IF k > Len(sub_symptoms) THEN acc
    ELSE LET sub == sub_symptoms[k][1]
         IN  MergeSubsNewOnly(IF Has(acc, sub) THEN acc
                              ELSE Put(acc, sub, Combined(<<>>, sub_symptoms[k][2])),
                              sub_symptoms, k + 1)

\* The innermost loop of merge_data: the leaves of one symptom.
RECURSIVE MergeSubs(_, _, _)
MergeSubs(acc, sub_symptoms, k) ==
    IF k > Len(sub_symptoms) THEN acc
    ELSE LET sub == sub_symptoms[k][1]
             a1  == SetDefault(acc, sub, <<>>)
         IN  MergeSubs(Put(a1, sub, Combined(Get(a1, sub), sub_symptoms[k][2])),
                       sub_symptoms, k + 1)

\* The middle loop of merge_data: the symptoms of one body part.
RECURSIVE MergeSymptoms(_, _, _)
MergeSymptoms(acc, symptoms, k) ==
    IF k > Len(symptoms) THEN acc
    ELSE LET sym == symptoms[k][1]
             a1  == SetDefault(acc, sym, EmptyDict)
         IN  MergeSymptoms(Put(a1, sym, MergeSubs(Get(a1, sym), symptoms[k][2], 1)),
                           symptoms, k + 1)

\* The outer loop of merge_data: the body parts of the page.
RECURSIVE MergeBodyParts(_, _, _)
MergeBodyParts(acc, new_data, k) ==
    IF k > Len(new_data) THEN acc
    ELSE LET bp == new_data[k][1]
             a1 == SetDefault(acc, bp, EmptyDict)
         IN  MergeBodyParts(Put(a1, bp, MergeSymptoms(Get(a1, bp), new_data[k][2], 1)),
                            new_data, k + 1)

\* merge_data(new_data) applied to all_data = acc
merge_data(acc, new_data) == MergeBodyParts(acc, new_data, 1)

\* ------------------------------------------------------------ page inputs

\* Lines as get_page_lines_and_body_parts returns them: stripped and non-empty.
\* "HEAD"
L_HEAD == <<72,69,65,68>>
\* "MIND"
L_MIND == <<77,73,78,68>>
\* "p. 109"
L_p109 == <<112,46,32,49,48,57>>
\* "p. 110"
L_p110 == <<112,46,32,49,49,48>>
\* "PAIN: throbbing, worse motion: Bell. Nux-v."
L_PainThrob == <<80,65,73,78,58,32,116,104,114,111,98,98,105,110,103,44,32,119,111,114,115,101,32,109,111,116,105,111,110,58,32,66,101,108,108,46,32,78,117,120,45,118,46>>
\* "PAIN: Bell."
L_PainBell == <<80,65,73,78,58,32,66,101,108,108,46>>
\* "PAIN: Bell. Acon."
L_PainBellAcon == <<80,65,73,78,58,32,66,101,108,108,46,32,65,99,111,110,46>>
\* "PAIN: Acon."
L_PainAcon == <<80,65,73,78,58,32,65,99,111,110,46>>
\* "PAIN"
L_Pain == <<80,65,73,78>>
\* "morning: Nux-v. Bell."
L_Morning == <<109,111,114,110,105,110,103,58,32,78,117,120,45,118,46,32,66,101,108,108,46>>
\* "FEVER: acon., bell."
L_FeverLower == <<70,69,86,69,82,58,32,97,99,111,110,46,44,32,98,101,108,108,46>>
\* "PAIN Bell. Nux-v."
L_PainSpace == <<80,65,73,78,32,66,101,108,108,46,32,78,117,120,45,118,46>>
\* "PAIN: Bell"
L_PainNoDot == <<80,65,73,78,58,32,66,101,108,108>>

\* One fetched page: the lines and the body-part names of its navigation links.
Page(lines, body_parts) == [lines |-> lines, body_parts |-> body_parts]

\* Scenario 1 of the specification.
PgScenario1 == Page(<<L_HEAD, L_p109, L_PainThrob>>, {L_HEAD})
\* Scenario 2: a page contributing Bell under HEAD/PAIN/general.
PgBell == Page(<<L_HEAD, L_p109, L_PainBell>>, {L_HEAD})
\* Bell again and Acon in the same leaf, from another page.
PgBellAcon == Page(<<L_HEAD, L_p110, L_PainBellAcon>>, {L_HEAD, L_MIND})
\* A header line without remedies, then a sub-symptom line.
PgMorning == Page(<<L_HEAD, L_p109, L_Pain, L_Morning>>, {L_HEAD})
\* Two body parts on one page, MIND first.
PgMindHead ==
    Page(<<L_MIND, L_p110, L_FeverLower, L_HEAD, L_p109, L_PainAcon>>, {L_HEAD, L_MIND})
\* No body-part marker: nothing is recorded.
PgNoMarker == Page(<<L_PainBell, L_Morning>>, {L_HEAD})
\* A header followed by a space and remedies, then a page-number line.
PgSpace == Page(<<L_HEAD, L_p109, L_PainSpace, L_p110>>, {L_HEAD})
\* A body-part name without its page-number line, and a remedy without period.
PgNoDot == Page(<<L_HEAD, L_PainNoDot, L_MIND, L_p109, L_PainNoDot>>, {L_HEAD, L_MIND})

\* Lines of no recognized shape or without their context: text and a symptom
\* header before any marker, a sub-symptom line between a marker and the next
\* symptom header, a body-part name as the last line.
PgStray ==
    Page(<<L_Morning, L_PainBell, L_HEAD, L_p109, L_Morning, L_HEAD>>, {L_HEAD})

\* The pages a site may serve.
SitePages ==
    {PgScenario1, PgBell, PgBellAcon, PgMorning, PgMindHead, PgNoMarker, PgSpace,
     PgNoDot, PgStray}

\* The leaves of a page in the order the loops of merge_data visit them:
\* <<body part, symptom, sub-symptom, medicines>>.
LeafSeq(new_data) ==
    LET SubsOf(bp, sym, subs, k) == <<bp, sym, subs[k][1], subs[k][2]>>
        RECURSIVE OfSymptoms(_, _, _)
        OfSymptoms(bp, symptoms, k) ==
            IF k > Len(symptoms) THEN <<>>
            ELSE [u \in 1..Len(symptoms[k][2]) |->
                     SubsOf(bp, symptoms[k][1], symptoms[k][2], u)]
                 \o OfSymptoms(bp, symptoms, k + 1)
        RECURSIVE OfBodyParts(_)
        OfBodyParts(k) ==
            IF k > Len(new_data) THEN <<>>
            ELSE OfSymptoms(new_data[k][1], new_data[k][2], 1) \o OfBodyParts(k + 1)
    IN  OfBodyParts(1)

\* all_data after each of the four assignments merge_data makes on the way to
\* one leaf: lines 230, 234, 238 (each only when the key is new) and 244.
LeafSteps(acc, leaf) ==
    LET bp  == leaf[1]
        sym == leaf[2]
        sub == leaf[3]
        s1  == SetDefault(acc, bp, EmptyDict)
        s2  == Put(s1, bp, SetDefault(Get(s1, bp), sym, EmptyDict))
        s3  == Put(s2, bp, Put(Get(s2, bp), sym,
                               SetDefault(Get(Get(s2, bp), sym), sub, <<>>)))
        s4  == Put(s3, bp, Put(Get(s3, bp), sym,
                               Put(Get(Get(s3, bp), sym), sub,
                                   Combined(Get(Get(Get(s3, bp), sym), sub), leaf[4]))))
    IN  <<s1, s2, s3, s4>>

\* all_data after every assignment of merge_data, from leaf k of the page on.
RECURSIVE MergeStates(_, _, _)
MergeStates(acc, leaves, k) ==
    IF k > Len(leaves) THEN <<>>
    ELSE LET steps == LeafSteps(acc, leaves[k])
         IN  steps \o MergeStates(steps[4], leaves, k + 1)

\* The values all_data can have when a KeyboardInterrupt ends merge_data(new_data):
\* the value before the call and the value after each of its assignments.
InterruptedStates(acc, new_data) ==
    {acc} \cup Range(MergeStates(acc, LeafSeq(new_data), 1))

\* ---------------------------------------------------------------- fetching

\* max_retries of make_request
MaxRetries == 3

\* How one attempt of make_request ends: a response that raise_for_status
\* accepts, status 429, or a RequestException (raise_for_status included).
AttemptOutcomes == {"ok", "rate_limited", "error"}

\* The outcomes of the attempts a call of make_request may meet.
AttemptSeqs == [1..MaxRetries -> AttemptOutcomes]

\* The loop of make_request from attempt k on: "response" when an attempt
\* succeeds, "raised" when the last attempt fails with a RequestException,
\* "None" when the loop runs out on a rate-limited attempt.
RECURSIVE Attempt(_, _)
Attempt(attempts, k) ==
    IF k > MaxRetries THEN "None"
    ELSE IF attempts[k] = "ok" THEN "response"
    ELSE IF attempts[k] = "rate_limited" THEN Attempt(attempts, k + 1)
    ELSE IF k < MaxRetries THEN Attempt(attempts, k + 1)
    ELSE "raised"

\* make_request(url) when its attempts end as given
make_request(attempts) == Attempt(attempts, 1)

\* The ways a call of make_request can end.
FetchOutcomes == {make_request(attempts) : attempts \in AttemptSeqs}

\* A page without text: no lines and no navigation links.
EmptyPage == Page(<<>>, {})

\* get_page_lines_and_body_parts(url) when make_request ends as fetched and the
\* site serves the page served: the exception and None both give ([], set()).
get_page_lines_and_body_parts(fetched, served) ==
    IF fetched = "response" THEN served ELSE EmptyPage

\* The values of save_interval the run is started with.
SaveIntervals == {2, 3}


\* ================================================================ processor
\* data_process.py: HomeopathicDataProcessor

\* -------------------------------------------------------------- JSON values

\* An element of a JSON array: a string, or a value that is no string.
StrItem(s) == [t |-> "str", s |-> s]
NumItem == [t |-> "num", s |-> <<>>]

\* The value found under a symptom of the raw data: a list of elements, a
\* single string, or a dict (iterating a dict yields its keys, the only part
\* of it process_data_structure reads).
JList(items) == [t |-> "list", items |-> items]
JStr(s) == [t |-> "str", items |-> <<StrItem(s)>>]
JDict(keys) == [t |-> "dict", items |-> [k \in 1..Len(keys) |-> StrItem(keys[k])]]

\* "not remedies": an empty list, dict or string
Falsy(value) ==
    IF value.t = "str" THEN value.items[1].s = <<>> ELSE value.items = <<>>

\* json.load(json.dump(all_data)): the scraper's repertory as raw data; every
\* symptom maps to the dict of its sub-symptoms.
ToRaw(data) ==
    [b \in 1..Len(data) |->
        <<data[b][1],
          [s \in 1..Len(data[b][2]) |->
              <<data[b][2][s][1], JDict(KeySeq(data[b][2][s][2]))>>]>>]

\* ---------------------------------------------------- normalize_symptom_name

\* re.sub(r'\s+', ' ', s): every run of whitespace becomes one space
RECURSIVE CollapseSpaces(_, _)
CollapseSpaces(s, p) ==
    IF p > Len(s) THEN <<>>
    ELSE IF s[p] \in SpaceChars
         THEN <<32>> \o CollapseSpaces(s, RunEnd(s, p, SpaceChars) + 1)
         ELSE <<s[p]>> \o CollapseSpaces(s, p + 1)

\* The keys of the normalizations table, in the order the loop visits them (every
\* key maps to itself).
Normalizations == <<
    <<97,99,104,105,110,103>>,  \* "aching"
    <<98,117,114,110,105,110,103>>,  \* "burning"
    <<112,97,105,110>>,  \* "pain"
    <<116,104,114,111,98,98,105,110,103>>,  \* "throbbing"
    <<115,104,111,111,116,105,110,103>>,  \* "shooting"
    <<115,116,105,110,103,105,110,103>>,  \* "stinging"
    <<99,114,97,109,112,105,110,103>>,  \* "cramping"
    <<105,110,102,108,97,109,109,97,116,105,111,110>>,  \* "inflammation"
    <<115,119,101,108,108,105,110,103>>,  \* "swelling"
    <<110,117,109,98,110,101,115,115>>,  \* "numbness"
    <<119,101,97,107,110,101,115,115>>,  \* "weakness"
    <<97,110,120,105,101,116,121>>,  \* "anxiety"
    <<100,101,112,114,101,115,115,105,111,110>>,  \* "depression"
    <<105,114,114,105,116,97,98,105,108,105,116,121>>,  \* "irritability"
    <<114,101,115,116,108,101,115,115,110,101,115,115>>,  \* "restlessness"
    <<102,101,118,101,114>>,  \* "fever"
    <<99,104,105,108,108,115>>,  \* "chills"
    <<110,97,117,115,101,97>>,  \* "nausea"
    <<118,111,109,105,116,105,110,103>>,  \* "vomiting"
    <<100,105,97,114,114,104,101,97>>,  \* "diarrhea"
    <<99,111,110,115,116,105,112,97,116,105,111,110>>,  \* "constipation"
    <<99,111,117,103,104>>,  \* "cough"
    <<99,111,110,103,101,115,116,105,111,110>>,  \* "congestion"
    <<100,105,115,99,104,97,114,103,101>>,  \* "discharge"
    <<101,114,117,112,116,105,111,110>>,  \* "eruption"
    <<105,116,99,104,105,110,103>>,  \* "itching"
    <<100,114,121,110,101,115,115>>,  \* "dryness"
    <<109,111,105,115,116,117,114,101>>  \* "moisture"
>>

\* The first key of the table contained in the cleaned symptom, if any.
RECURSIVE FirstNormalization(_, _)
FirstNormalization(symptom, k) ==
    IF k > Len(Normalizations) THEN symptom
    ELSE IF Contains(symptom, Normalizations[k]) THEN Normalizations[k]
         ELSE FirstNormalization(symptom, k + 1)

\* normalize_symptom_name with [-:,.] for [-:,.\s] in the pattern of line 36:
\* a space next to the punctuation at an end survives.
normalize_symptom_name_keeps_space(symptom) ==
    FirstNormalization(
        StripChars(CollapseSpaces(Strip(Lower(symptom)), 1), {45, 58, 44, 46}), 1)

\* normalize_symptom_name(symptom)
normalize_symptom_name(symptom) ==
    FirstNormalization(
        StripChars(CollapseSpaces(Strip(Lower(symptom)), 1), PunctChars), 1)

\* ---------------------------------------------------- process_data_structure

\* index[key].add(elem) on a defaultdict(set)
IndexAdd(index, key, elem) ==
    Put(index, key, (IF Has(index, key) THEN Get(index, key) ELSE {}) \cup {elem})

\* "Clean up remedy names": the stripped non-blank strings of the value
CleanRemedies(value) ==
    LET kept == SelectSeq(value.items, LAMBDA e : e.t = "str" /\ Strip(e.s) # <<>>)
    IN  [k \in 1..Len(kept) |-> Strip(kept[k].s)]

\* "for remedy in clean_remedies: self.remedy_index[remedy].add(...)"
RECURSIVE IndexRemedies(_, _, _, _)
IndexRemedies(index, remedies, loc, k) ==
    IF k > Len(remedies) THEN index
    ELSE IndexRemedies(IndexAdd(index, remedies[k], loc), remedies, loc, k + 1)

\* The loop over the symptoms of one body part; acc = [symptoms, remedy_index,
\* symptom_index] holds processed[body_part] and the two indices.
RECURSIVE ProcessSymptoms(_, _, _, _)
ProcessSymptoms(acc, body_part, symptoms_dict, k) ==
    IF k > Len(symptoms_dict) THEN acc
    ELSE LET symptom    == symptoms_dict[k][1]
             remedies   == symptoms_dict[k][2]
             normalized == normalize_symptom_name(symptom)
             clean      == CleanRemedies(remedies)
             next       ==
                 IF Falsy(remedies) \/ clean = <<>> THEN acc
                 ELSE [symptoms      |-> Put(acc.symptoms, normalized, clean),
                       remedy_index  |-> IndexRemedies(acc.remedy_index, clean,
                                                       <<body_part, normalized>>, 1),
                       symptom_index |-> IndexAdd(acc.symptom_index, normalized,
                                                  body_part)]
         IN  ProcessSymptoms(next, body_part, symptoms_dict, k + 1)

\* The loop over the body parts; acc = [processed, remedy_index, symptom_index].
RECURSIVE ProcessBodyParts(_, _, _)
ProcessBodyParts(acc, raw_data, k) ==
    IF k > Len(raw_data) THEN acc
    ELSE LET body_part     == raw_data[k][1]
             symptoms_dict == raw_data[k][2]
             inner == ProcessSymptoms([symptoms      |-> EmptyDict,
                                       remedy_index  |-> acc.remedy_index,
                                       symptom_index |-> acc.symptom_index],
                                      body_part, symptoms_dict, 1)
             next  ==
                 IF symptoms_dict = EmptyDict THEN acc
                 ELSE [processed     |-> Put(acc.processed, body_part, inner.symptoms),
                       remedy_index  |-> inner.remedy_index,
                       symptom_index |-> inner.symptom_index]
         IN  ProcessBodyParts(next, raw_data, k + 1)

\* process_data_structure(raw_data) on a processor whose indices are
\* remedy_index and symptom_index: the returned dict and the indices afterwards.
process_data_structure(raw_data, r_index, s_index) ==
    ProcessBodyParts([processed |-> EmptyDict, remedy_index |-> r_index,
                      symptom_index |-> s_index], raw_data, 1)

\* ------------------------------------------------------ find_common_remedies

\* f"{body_part}:{symptom}"
Location(body_part, symptom) == body_part \o <<58>> \o symptom

\* "remedy_scores[remedy] += 1; remedy_matches[remedy].append(location)" on the
\* two defaultdicts acc = [scores, matches]
Credit(acc, remedy, loc) ==
    [scores  |-> Put(acc.scores, remedy,
                     (IF Has(acc.scores, remedy) THEN Get(acc.scores, remedy) ELSE 0) + 1),
     matches |-> Put(acc.matches, remedy,
                     (IF Has(acc.matches, remedy) THEN Get(acc.matches, remedy) ELSE <<>>)
                     \o <<loc>>)]

\* The loops of find_common_remedies thread the two defaultdicts through their
\* iterations.  Each iteration compares its outcome with the accumulator it
\* started from before it goes on: TLC evaluates an operator's arguments on
\* demand, and the comparison makes it finish an iteration before the next.

\* First loop, "for remedy in self.processed_data[body_part][symptom]"
RECURSIVE CreditAll(_, _, _, _)
CreditAll(acc, remedies, loc, k) ==
    IF k > Len(remedies) THEN acc
    ELSE LET credited == Credit(acc, remedies[k], loc)
         IN  IF credited = acc
             THEN CreditAll(acc, remedies, loc, k + 1)
             ELSE CreditAll(credited, remedies, loc, k + 1)

\* Mutant: the symptom is looked up in its normalized form.
RECURSIVE ScoreSymptomsNormalized(_, _, _, _, _)
ScoreSymptomsNormalized(acc, processed, body_part, symptoms, k) ==
    IF k > Len(symptoms) THEN acc
    ELSE LET key == normalize_symptom_name(symptoms[k])
         IN  IF Has(Get(processed, body_part), key)
             THEN LET scored == CreditAll(acc, Get(Get(processed, body_part), key),
                                          Location(body_part, symptoms[k]), 1)
                  IN  IF scored = acc
                      THEN ScoreSymptomsNormalized(acc, processed, body_part, symptoms, k + 1)
                      ELSE ScoreSymptomsNormalized(scored, processed, body_part, symptoms, k + 1)
             ELSE ScoreSymptomsNormalized(acc, processed, body_part, symptoms, k + 1)

\* First loop, "for symptom in symptoms: if symptom in processed_data[body_part]"
RECURSIVE ScoreSymptoms(_, _, _, _, _)
ScoreSymptoms(acc, processed, body_part, symptoms, k) ==
    IF k > Len(symptoms) THEN acc
    ELSE IF Has(Get(processed, body_part), symptoms[k])
         THEN LET scored == CreditAll(acc, Get(Get(processed, body_part), symptoms[k]),
                                      Location(body_part, symptoms[k]), 1)
              IN  IF scored = acc
                  THEN ScoreSymptoms(acc, processed, body_part, symptoms, k + 1)
                  ELSE ScoreSymptoms(scored, processed, body_part, symptoms, k + 1)
         ELSE ScoreSymptoms(acc, processed, body_part, symptoms, k + 1)

\* First loop, "for body_part in body_parts: if body_part in self.processed_data"
RECURSIVE ScoreBodyParts(_, _, _, _, _)
ScoreBodyParts(acc, processed, body_parts, symptoms, k) ==
    IF k > Len(body_parts) THEN acc
    ELSE IF Has(processed, body_parts[k])
         THEN LET scored == ScoreSymptoms(acc, processed, body_parts[k], symptoms, 1)
              IN  IF scored = acc
                  THEN ScoreBodyParts(acc, processed, body_parts, symptoms, k + 1)
                  ELSE ScoreBodyParts(scored, processed, body_parts, symptoms, k + 1)
         ELSE ScoreBodyParts(acc, processed, body_parts, symptoms, k + 1)

\* Second loop, "for remedy in ...: if remedy not in remedy_matches or
\* location not in remedy_matches[remedy]"
RECURSIVE CreditNew(_, _, _, _)
CreditNew(acc, remedies, loc, k) ==
    IF k > Len(remedies) THEN acc
    ELSE IF \/ ~Has(acc.matches, remedies[k])
            \/ loc \notin Range(Get(acc.matches, remedies[k]))
         THEN LET credited == Credit(acc, remedies[k], loc)
              IN  IF credited = acc
                  THEN CreditNew(acc, remedies, loc, k + 1)
                  ELSE CreditNew(credited, remedies, loc, k + 1)
         ELSE CreditNew(acc, remedies, loc, k + 1)

\* Second loop, "for body_part in self.symptom_index.get(symptom, set())", the
\* set iterated in the order indexed.
RECURSIVE CrossBodyParts(_, _, _, _, _, _)
CrossBodyParts(acc, processed, indexed, body_parts, symptom, k) ==
    IF k > Len(indexed) THEN acc
    ELSE LET body_part == indexed[k]
             crossed   == IF /\ body_part \in Range(body_parts)
                             /\ Has(processed, body_part)
                             /\ Has(Get(processed, body_part), symptom)
                          THEN CreditNew(acc, Get(Get(processed, body_part), symptom),
                                         Location(body_part, symptom), 1)
                          ELSE acc
         IN  IF crossed = acc
             THEN CrossBodyParts(acc, processed, indexed, body_parts, symptom, k + 1)
             ELSE CrossBodyParts(crossed, processed, indexed, body_parts, symptom, k + 1)

\* The order in which a set of strings is iterated: it follows the hash values
\* of this process, modelled as one fixed order of all body-part names.
IterationOrder(S, order) == SelectSeq(order, LAMBDA x : x \in S)

\* Second loop, "for symptom in symptoms"
RECURSIVE CrossSymptoms(_, _, _, _, _, _, _)
CrossSymptoms(acc, processed, s_index, order, body_parts, symptoms, k) ==
    IF k > Len(symptoms) THEN acc
    ELSE LET indexed == IF Has(s_index, symptoms[k])
                        THEN IterationOrder(Get(s_index, symptoms[k]), order)
                        ELSE <<>>
             crossed == CrossBodyParts(acc, processed, indexed, body_parts, symptoms[k], 1)
         IN  IF crossed = acc
             THEN CrossSymptoms(acc, processed, s_index, order, body_parts, symptoms, k + 1)
             ELSE CrossSymptoms(crossed, processed, s_index, order, body_parts, symptoms, k + 1)

\* Mutant: sorted without reverse=True.
RECURSIVE SortedByScoreAscending(_)
SortedByScoreAscending(items) ==
    IF items = <<>> THEN <<>>
    ELSE LET j == CHOOSE j \in 1..Len(items) :
                      /\ \A m \in 1..Len(items) : items[m][2] >= items[j][2]
                      /\ \A m \in 1..(j - 1) : items[m][2] > items[j][2]
         IN  <<items[j]>> \o
             SortedByScoreAscending(SubSeq(items, 1, j - 1) \o SubSeq(items, j + 1, Len(items)))

\* sorted(remedy_scores.items(), key=lambda x: x[1], reverse=True): a stable
\* sort, equal scores keep the order of the dict
RECURSIVE SortedByScore(_)
SortedByScore(items) ==
    IF items = <<>> THEN <<>>
    ELSE LET j == CHOOSE j \in 1..Len(items) :
                      /\ \A m \in 1..Len(items) : items[m][2] <= items[j][2]
                      /\ \A m \in 1..(j - 1) : items[m][2] < items[j][2]
         IN  <<items[j]>> \o
             SortedByScore(SubSeq(items, 1, j - 1) \o SubSeq(items, j + 1, Len(items)))

\* match.split(':')[0]
MatchBodyPart(match) == SplitFirst(match, 58)[1]

\* match.split(':')[1]
MatchSymptom(match) ==
    LET rest == SplitFirst(match, 58)[2]
    IN  IF HasChar(rest, 58) THEN SplitFirst(rest, 58)[1] ELSE rest

\* The entry of one remedy in the result; body_parts and symptoms are
\* list(set(...)), of unspecified order, kept as sets.
ResultEntry(score, matches) ==
    [score      |-> score,
     matches    |-> matches,
     body_parts |-> {MatchBodyPart(m) : m \in Range(matches)},
     symptoms   |-> {MatchSymptom(m) : m \in Range(matches)}]

\* find_common_remedies with an empty collection read as "no restriction": an
\* empty body_parts stands for every body part and an empty symptoms for every
\* indexed symptom, and the early return of line 155 is gone.
find_common_remedies_wildcard(processed, s_index, order, body_parts, symptoms) ==
    LET bps    == IF body_parts = <<>> THEN KeySeq(processed) ELSE body_parts
        syms   == IF symptoms = <<>> THEN KeySeq(s_index) ELSE symptoms
        first  == ScoreBodyParts([scores |-> EmptyDict, matches |-> EmptyDict],
                                 processed, bps, syms, 1)
        second == CrossSymptoms(first, processed, s_index, order, bps, syms, 1)
        sorted_remedies == SortedByScore(second.scores)
    IN  [k \in 1..Len(sorted_remedies) |->
            <<sorted_remedies[k][1],
              ResultEntry(sorted_remedies[k][2],
                          Get(second.matches, sorted_remedies[k][1]))>>]

\* Mutant: only the remedies matched on every symptom of the query are kept.
find_common_remedies_intersect(processed, s_index, order, body_parts, symptoms) ==
    IF body_parts = <<>> /\ symptoms = <<>> THEN EmptyDict
    ELSE LET first  == ScoreBodyParts([scores |-> EmptyDict, matches |-> EmptyDict],
                                      processed, body_parts, symptoms, 1)
             second == CrossSymptoms(first, processed, s_index, order,
                                     body_parts, symptoms, 1)
             common == SelectSeq(second.scores,
                           LAMBDA item :
                               Range(symptoms) \subseteq
                                   {MatchSymptom(m) : m \in Range(Get(second.matches, item[1]))})
             sorted_remedies == SortedByScore(common)
         IN  [k \in 1..Len(sorted_remedies) |->
                 <<sorted_remedies[k][1],
                   ResultEntry(sorted_remedies[k][2],
                               Get(second.matches, sorted_remedies[k][1]))>>]

\* find_common_remedies(body_parts, symptoms) on a processor with the given
\* processed_data and symptom_index: the returned dict, in insertion order.
find_common_remedies(processed, s_index, order, body_parts, symptoms) ==
    IF body_parts = <<>> /\ symptoms = <<>> THEN EmptyDict
    ELSE LET first  == ScoreBodyParts([scores |-> EmptyDict, matches |-> EmptyDict],
                                      processed, body_parts, symptoms, 1)
             second == CrossSymptoms(first, processed, s_index, order,
                                     body_parts, symptoms, 1)
             sorted_remedies == SortedByScore(second.scores)
         IN  [k \in 1..Len(sorted_remedies) |->
                 <<sorted_remedies[k][1],
                   ResultEntry(sorted_remedies[k][2],
                               Get(second.matches, sorted_remedies[k][1]))>>]

\* ------------------------------------------------------ create_search_index

\* The pairs <<body part, <<symptom, remedies>>>> of a processed repertory in
\* the order the loops of lines 246 and 251 visit them.
RECURSIVE SymptomVisits(_, _)
SymptomVisits(processed, k) ==
    IF k > Len(processed) THEN <<>>
    ELSE [s \in 1..Len(processed[k][2]) |-> <<processed[k][1], processed[k][2][s]>>]
         \o SymptomVisits(processed, k + 1)

\* The loop of lines 251-254 over those pairs; acc = [remedies_by_symptom,
\* body_parts_by_symptom].  Line 253 assigns, line 254 adds.
RECURSIVE IndexSymptoms(_, _, _)
IndexSymptoms(acc, visits, k) ==
    IF k > Len(visits) THEN acc
    ELSE LET body_part == visits[k][1]
             symptom   == visits[k][2][1]
             remedies  == visits[k][2][2]
         IN  IndexSymptoms(
                 [remedies_by_symptom   |-> Put(acc.remedies_by_symptom, symptom, remedies),
                  body_parts_by_symptom |-> IndexAdd(acc.body_parts_by_symptom,
                                                     symptom, body_part)],
                 visits, k + 1)

\* create_search_index() on a processor with the given processed_data; the
\* lists made from sets are kept as sets.
create_search_index(processed) ==
    LET visits  == SymptomVisits(processed, 1)
        indexed == IndexSymptoms([remedies_by_symptom |-> EmptyDict,
                                  body_parts_by_symptom |-> EmptyDict], visits, 1)
        RemediesOf(symptoms_dict) ==
            UNION {Range(symptoms_dict[s][2]) : s \in 1..Len(symptoms_dict)}
    IN  [symptoms_by_body_part |->
             [k \in 1..Len(processed) |-> <<processed[k][1], KeySeq(processed[k][2])>>],
         remedies_by_symptom   |-> indexed.remedies_by_symptom,
         remedies_by_body_part |->
             [k \in 1..Len(processed) |-> <<processed[k][1], RemediesOf(processed[k][2])>>],
         body_parts_by_symptom |-> indexed.body_parts_by_symptom,
         all_symptoms   |-> {visits[k][2][1] : k \in 1..Len(visits)},
         all_remedies   |-> UNION {Range(visits[k][2][2]) : k \in 1..Len(visits)},
         all_body_parts |-> Keys(processed)]

\* ---------------------------------------------------------- detail queries

\* str.split(): the words of a string, its maximal runs of non-space characters.
Words(s) ==
    {SubSeq(s, ab[1], ab[2]) :
        ab \in {x \in (1..Len(s)) \X (1..Len(s)) :
                   /\ x[1] <= x[2]
                   /\ \A k \in x[1]..x[2] : s[k] \notin SpaceChars
                   /\ x[1] = 1 \/ s[x[1] - 1] \in SpaceChars
                   /\ x[2] = Len(s) \/ s[x[2] + 1] \in SpaceChars}}

\* The loop over the symptoms of one body part in get_symptom_alternatives.
AlternativesIn(symptoms_dict, symptom) ==
    LET keys == KeySeq(symptoms_dict)
    IN  SelectSeq(keys, LAMBDA other_symptom :
                            /\ other_symptom # symptom
                            /\ Words(symptom) \cap Words(other_symptom) # {})

\* The loop over processed_data in get_symptom_alternatives.
RECURSIVE AlternativesFrom(_, _, _, _)
AlternativesFrom(processed, symptom, body_part, k) ==
    IF k > Len(processed) THEN <<>>
    ELSE (IF body_part # None /\ processed[k][1] # body_part
          THEN <<>>
          ELSE AlternativesIn(processed[k][2], symptom))
         \o AlternativesFrom(processed, symptom, body_part, k + 1)

\* get_symptom_alternatives(symptom, body_part): the returned list.
get_symptom_alternatives(processed, symptom, body_part) ==
    AlternativesFrom(processed, symptom, body_part, 1)

\* get_remedy_details(remedy) on a processor whose remedy_index is r_index:
\* the returned details, with list(set(...)) kept as the set, and the index
\* afterwards.  Line 230 reads self.remedy_index[remedy] unguarded, and the
\* index is a defaultdict(set).
get_remedy_details(r_index, remedy) ==
    LET locations == IF Has(r_index, remedy) THEN Get(r_index, remedy) ELSE {}
    IN  [details      |-> [name              |-> remedy,
                           body_parts        |-> {loc[1] : loc \in locations},
                           symptoms          |-> {loc[2] : loc \in locations},
                           total_indications |-> Cardinality(locations)],
         remedy_index |-> IF Has(r_index, remedy) THEN r_index
                          ELSE Append(r_index, <<remedy, {}>>)]

\* ------------------------------------------------------- processor inputs

\* "Acon"
S_Acon == <<65,99,111,110>>
\* "Nux-v"
S_Nuxv == <<78,117,120,45,118>>
\* "Bell"
S_Bell == <<66,101,108,108>>
\* "PAIN"
S_PAIN == <<80,65,73,78>>
\* "pain"
S_pain == <<112,97,105,110>>
\* "fever"
S_fever == <<102,101,118,101,114>>
\* "Bell "
S_BellSpace == <<66,101,108,108,32>>
\* "Pain."
S_PainDot == <<80,97,105,110,46>>
\* "throbbing pain"
S_throbbing_pain == <<116,104,114,111,98,98,105,110,103,32,112,97,105,110>>

\* The raw data of Scenario 1 as the scraper writes it:
\* {"HEAD": {"PAIN": {"general": ["Bell", "Nux-v"]}}}
RawScenario1 == ToRaw(parse_lines(PgScenario1.lines, PgScenario1.body_parts))

\* {"HEAD": {"pain": ["Nux-v", "Bell"]},
\*  "MIND": {"pain": ["Bell"], "fever": ["Acon", "Bell"]}}
RawTwoParts ==
    << <<L_HEAD, << <<S_pain, JList(<<StrItem(S_Nuxv), StrItem(S_Bell)>>)>> >> >>,
       <<L_MIND, << <<S_pain, JList(<<StrItem(S_Bell)>>)>>,
                    <<S_fever, JList(<<StrItem(S_Acon), StrItem(S_Bell)>>)>> >> >> >>

\* {"HEAD": {"pain": ["Nux-v", "Bell", "Bell "]},
\*  "MIND": {"Pain.": ["Bell"], "fever": []}}
RawDuplicates ==
    << <<L_HEAD, << <<S_pain, JList(<<StrItem(S_Nuxv), StrItem(S_Bell),
                                      StrItem(S_BellSpace)>>)>> >> >>,
       <<L_MIND, << <<S_PainDot, JList(<<StrItem(S_Bell)>>)>>,
                    <<S_fever, JList(<<>>)>> >> >> >>

\* "Worse,  at NIGHT ."
S_WorseRaw == <<87,111,114,115,101,44,32,32,97,116,32,78,73,71,72,84,32,46>>
\* "worse, at night"
S_worse_at_night == <<119,111,114,115,101,44,32,97,116,32,110,105,103,104,116>>

\* {"MIND": {"fever": ["Acon", 7, "Bell"], "PAIN": "Acon"},
\*  "HEAD": {"fever": "Acon", "pain": ["", " "], "Worse,  at NIGHT .": ["Acon"]}}
RawMixed ==
    << <<L_MIND, << <<S_fever, JList(<<StrItem(S_Acon), NumItem, StrItem(S_Bell)>>)>>,
                    <<S_PAIN, JStr(S_Acon)>> >> >>,
       <<L_HEAD, << <<S_fever, JStr(S_Acon)>>,
                    <<S_pain, JList(<<StrItem(<<>>), StrItem(<<32>>)>>)>>,
                    <<S_WorseRaw, JList(<<StrItem(S_Acon)>>)>> >> >> >>

\* {"HEAD": {"throbbing pain": ["Bell"], "pain": ["Acon"]},
\*  "MIND": {"fever": []}}
RawCollision ==
    << <<L_HEAD, << <<S_throbbing_pain, JList(<<StrItem(S_Bell)>>)>>,
                    <<S_pain, JList(<<StrItem(S_Acon)>>)>> >> >>,
       <<L_MIND, << <<S_fever, JList(<<>>)>> >> >> >>

\* The files process_all may load; {} stands for an empty, missing or
\* unreadable file as well.
RawInputs ==
    <<RawScenario1, RawTwoParts, RawDuplicates, RawMixed, RawCollision, EmptyDict>>

\* "Sulph"
S_Sulph == <<83,117,108,112,104>>

\* The remedies get_remedy_details is asked about: one the repertories list
\* and one none of them lists.
DetailRemedies == {S_Bell, S_Sulph}

\* The arguments of get_symptom_alternatives: a stored key, a raw spelling
\* sharing a word with it, and a body part or none.
AlternativeSymptoms == {S_pain, S_throbbing_pain}
AlternativeBodyParts == {None, L_HEAD}

\* The names a query may use: body parts and symptoms of the raw data, present
\* in some repertories and absent from others, in the spelling of the scraper
\* ("PAIN") and of the normalizer ("pain").
QueryBodyParts == {L_HEAD, L_MIND}
QuerySymptoms == {S_pain, S_fever, S_PAIN}

\* The lists of at most MaxQuery names, repetitions included.
QueryLists(names) == UNION {[1..n -> names] : n \in 0..MaxQuery}

\* The orders in which this process may iterate a set of body-part names.
SetOrders == {<<L_HEAD, L_MIND>>, <<L_MIND, L_HEAD>>}

\* ------------------------------------- bold-fragment classifier (scrap2.py)

\* re.match(r'^p\.\s*\d+', text, re.IGNORECASE), which is also the 'P' pattern
PageAbbrevMatches(text) ==
    /\ Len(text) >= 3
    /\ LowerChar(text[1]) = 112 /\ text[2] = 46
    /\ LET e == RunEnd(text, 3, SpaceChars)
       IN  e < Len(text) /\ text[e + 1] \in DigitChars

\* re.match(r'^page\s*\d+', text, re.IGNORECASE)
PageWordMatches(text) ==
    /\ Len(text) >= 5
    /\ Lower(SubSeq(text, 1, 4)) = <<112,97,103,101>>
    /\ LET e == RunEnd(text, 5, SpaceChars)
       IN  e < Len(text) /\ text[e + 1] \in DigitChars

\* re.match(r'^[a-z]+\s*\d+', text, re.IGNORECASE)
WordNumberMatches(text) ==
    /\ Len(text) >= 2
    /\ text[1] \in AlphaChars
    /\ LET e == RunEnd(text, RunEnd(text, 1, AlphaChars) + 1, SpaceChars)
       IN  e < Len(text) /\ text[e + 1] \in DigitChars

\* is_page_reference(text): some exclude pattern matches text.strip() with
\* re.IGNORECASE, under which r'^[A-Z]+$' is any word of letters
is_page_reference(raw) ==
    LET text == Strip(raw)
    IN  \/ PageAbbrevMatches(text)
        \/ PageWordMatches(text)
        \/ (text # <<>> /\ \A k \in 1..Len(text) : text[k] \in DigitChars)
        \/ (text # <<>> /\ \A k \in 1..Len(text) : text[k] \in AlphaChars)
        \/ WordNumberMatches(text)
        \/ text = <<>>

\* the index of the last character of [A-Z][a-z]+ at the start of text, or 0
CapWordEnd(text) ==
    IF Len(text) >= 2 /\ text[1] \in UpperChars /\ text[2] \in LowerChars
    THEN RunEnd(text, 2, LowerChars)
    ELSE 0

\* \.?$ at index j: the string ends there, or after one period
EndsAt(text, j) == j = Len(text) + 1 \/ (j = Len(text) /\ text[j] = 46)

\* the index after n repetitions of -[a-z]+ that start at index j, or 0
RECURSIVE HyphenSegsEnd(_, _, _)
HyphenSegsEnd(text, j, n) ==
    IF n = 0 THEN j
    ELSE IF j < Len(text) /\ text[j] = 45 /\ text[j + 1] \in LowerChars
         THEN HyphenSegsEnd(text, RunEnd(text, j + 1, LowerChars) + 1, n - 1)
         ELSE 0

\* some pattern of medicine_patterns matches text
MedicinePatternMatches(text) ==
    LET e == CapWordEnd(text)
    IN  /\ e > 0
        /\ \/ LET n == HyphenSegsEnd(text, e + 1, 1) IN n > 0 /\ EndsAt(text, n)
           \/ EndsAt(text, e + 1)
           \/ LET n == HyphenSegsEnd(text, e + 1, 2) IN n > 0 /\ EndsAt(text, n)
           \/ LET s == RunEnd(text, e + 1, SpaceChars)
              IN  /\ s > e
                  /\ s < Len(text) /\ text[s + 1] \in LowerChars
                  /\ EndsAt(text, RunEnd(text, s + 1, LowerChars) + 1)
           \/ (e - 1 \in 2..8 /\ EndsAt(text, e + 1))

\* the two patterns tried on a text of at most 12 characters
ShortMedicineMatches(text) ==
    LET e == CapWordEnd(text)
    IN  /\ Len(text) <= 12
        /\ e > 0
        /\ \/ \E n \in 0..Len(text) :
                  LET m == HyphenSegsEnd(text, e + 1, n) IN m > 0 /\ EndsAt(text, m)
           \/ (e - 1 \in 1..3 /\ EndsAt(text, e + 1))

\* is_medicine_name(text)
is_medicine_name(raw) ==
    LET text == Strip(raw)
    IN  /\ ~is_page_reference(text)
        /\ \/ /\ text[Len(text)] = 46
              /\ MedicinePatternMatches(RStripChars(text, {46}) \o <<46>>)
           \/ MedicinePatternMatches(text)
           \/ ShortMedicineMatches(text)

\* symptom_keywords of is_symptom
symptom_keywords ==
    {
      <<112,97,105,110>>,   \* 'pain'
      <<97,99,104,101>>,   \* 'ache'
      <<98,117,114,110>>,   \* 'burn'
      <<105,116,99,104>>,   \* 'itch'
      <<115,119,101,108,108>>,   \* 'swell'
      <<116,104,114,111,98>>,   \* 'throb'
      <<115,104,111,111,116>>,   \* 'shoot'
      <<115,116,105,110,103>>,   \* 'sting'
      <<99,114,97,109,112>>,   \* 'cramp'
      <<110,117,109,98>>,   \* 'numb'
      <<119,101,97,107>>,   \* 'weak'
      <<100,105,122,122,121>>,   \* 'dizzy'
      <<110,97,117,115,101,97>>,   \* 'nausea'
      <<118,111,109,105,116>>,   \* 'vomit'
      <<102,101,118,101,114>>,   \* 'fever'
      <<99,104,105,108,108>>,   \* 'chill'
      <<97,110,120,105,101,116,121>>,   \* 'anxiety'
      <<102,101,97,114>>,   \* 'fear'
      <<119,111,114,114,121>>,   \* 'worry'
      <<115,97,100>>,   \* 'sad'
      <<97,110,103,114,121>>,   \* 'angry'
      <<105,114,114,105,116,97,98>>,   \* 'irritab'
      <<114,101,115,116,108,101,115,115>>,   \* 'restless'
      <<99,111,117,103,104>>,   \* 'cough'
      <<98,114,101,97,116,104>>,   \* 'breath'
      <<99,111,110,103,101,115,116>>,   \* 'congest'
      <<100,105,115,99,104,97,114,103,101>>,   \* 'discharge'
      <<100,114,121>>,   \* 'dry'
      <<109,111,105,115,116>>,   \* 'moist'
      <<104,111,116>>,   \* 'hot'
      <<99,111,108,100>>    \* 'cold'
    }

\* the descriptive words of is_symptom
descriptive_words ==
    {
      <<118,101,114,121>>,   \* 'very'
      <<109,117,99,104>>,   \* 'much'
      <<108,105,116,116,108,101>>,   \* 'little'
      <<103,114,101,97,116>>,   \* 'great'
      <<99,111,110,115,116,97,110,116>>,   \* 'constant'
      <<115,117,100,100,101,110>>    \* 'sudden'
    }

\* is_symptom(text)
is_symptom(raw) ==
    LET text == Strip(raw)
        text_lower == Lower(text)
    IN  /\ ~is_page_reference(text)
        /\ ~is_medicine_name(text)
        /\ \/ Len(text) > 15
           \/ \E keyword \in symptom_keywords : Contains(text_lower, keyword)
           \/ (text[1] \in LowerChars /\ HasChar(text, 32))
           \/ \E word \in descriptive_words : Contains(text_lower, word)

\* extract_bold_text_structured(soup): the stripped text of the bold tags, in
\* document order, without the empty ones and the page references
extract_bold_text_structured(bold_tags) ==
    SelectSeq([k \in 1..Len(bold_tags) |-> Strip(bold_tags[k])],
              LAMBDA text : text # <<>> /\ ~is_page_reference(text))

\* symptoms_data, current_symptom, current_medicines before the loop of
\* parse_symptoms_medicines
BoldStart ==
    [symptoms_data |-> EmptyDict, current_symptom |-> None, current_medicines |-> <<>>]

\* symptoms_data[current_symptom] = current_medicines.copy(), when both are set
SaveSymptom(st) ==
    IF st.current_symptom # None /\ st.current_medicines # <<>>
    THEN [st EXCEPT !.symptoms_data = Put(@, st.current_symptom, st.current_medicines)]
    ELSE st

\* one iteration of the loop of parse_symptoms_medicines
BoldStep(st, raw) ==
    LET text == Strip(raw)
    IN  IF text = <<>> \/ is_page_reference(text) THEN st
        ELSE IF is_medicine_name(text)
        THEN LET medicine == Strip(RStripChars(text, {46}))
             IN  IF medicine # <<>>
                 THEN [st EXCEPT !.current_medicines = Append(@, medicine)]
                 ELSE st
        ELSE LET kept == SaveSymptom(st)
             IN  IF is_symptom(text) \/ (Len(text) > 8 /\ ~is_medicine_name(text))
                 THEN [kept EXCEPT !.current_symptom = text, !.current_medicines = <<>>]
                 ELSE kept

\* the states of parse_symptoms_medicines at the head of each iteration and
\* after the last one
RECURSIVE BoldStates(_, _)
BoldStates(st, bold_texts) ==
    IF bold_texts = <<>> THEN <<st>>
    ELSE <<st>> \o BoldStates(BoldStep(st, Head(bold_texts)), Tail(bold_texts))

\* parse_symptoms_medicines(bold_texts)
parse_symptoms_medicines(bold_texts) ==
    LET states == BoldStates(BoldStart, bold_texts)
    IN  SaveSymptom(states[Len(states)]).symptoms_data

\* extract_symptoms_medicines(url): the parsed page, or {} when every attempt
\* raised a RequestException or the parsing raised
extract_symptoms_medicines(response, bold_tags) ==
    IF response = "response"
    THEN parse_symptoms_medicines(extract_bold_text_structured(bold_tags))
    ELSE EmptyDict

\* dict.update(other)
RECURSIVE Update(_, _)
Update(d, other) ==
    IF other = <<>> THEN d
    ELSE Update(Put(d, Head(other)[1], Head(other)[2]), Tail(other))

\* 'MIND'
B_MIND == <<77,73,78,68>>
\* 'p. 1'
B_p1 == <<112,46,32,49>>
\* 'p. 2'
B_p2 == <<112,46,32,50>>
\* 'Anxiety, night'
B_AnxietyNight == <<65,110,120,105,101,116,121,44,32,110,105,103,104,116>>
\* 'Acon.'
B_AconDot == <<65,99,111,110,46>>
\* 'Bell.'
B_BellDot == <<66,101,108,108,46>>
\* 'Bell'
B_Bell == <<66,101,108,108>>
\* 'Ars.'
B_ArsDot == <<65,114,115,46>>
\* 'Fear of death'
B_FearOfDeath == <<70,101,97,114,32,111,102,32,100,101,97,116,104>>
\* 'Nux-v.'
B_NuxvDot == <<78,117,120,45,118,46>>
\* 'Plat.'
B_PlatDot == <<80,108,97,116,46>>
\* 'weeping, alone'
B_WeepingAlone == <<119,101,101,112,105,110,103,44,32,97,108,111,110,101>>
\* 'Weeping:'
B_WeepingColon == <<87,101,101,112,105,110,103,58>>
\* 'Hyos.'
B_HyosDot == <<72,121,111,115,46>>
\* 'Kali carb.'
B_KaliCarbDot == <<75,97,108,105,32,99,97,114,98,46>>
\* 'Acon'
B_Acon == <<65,99,111,110>>

\* The bold tags the site may serve for a link.
BoldPageA == <<B_MIND, B_p1, B_AnxietyNight, B_AconDot, B_BellDot>>
BoldPageB == <<B_AnxietyNight, B_ArsDot, B_Bell>>
BoldPageC == <<B_FearOfDeath, B_AconDot, B_AnxietyNight, B_NuxvDot, B_FearOfDeath, B_PlatDot>>
BoldPageD == <<B_MIND, B_p2>>
BoldPageE == <<B_WeepingAlone, B_Acon, B_BellDot, B_WeepingColon, B_HyosDot, B_KaliCarbDot>>
BoldPages == {BoldPageA, BoldPageB, BoldPageC, BoldPageD, BoldPageE}

\* How the requests of one link may end.
BoldResponses == {"response", "failed"}

\* ------------------------------------------------------------------ state

VARIABLES
    all_data,       \* KentRepertoryScraper.all_data
    page,           \* lines and body_parts of the last loop iteration
    fetched,        \* how make_request ended in the last loop iteration
    page_data,      \* page_data of the last loop iteration of scrape_all_pages
    partials,       \* history: the page_data of every page merged so far, in order
    page_no,        \* i of scrape_all_pages: the next page to scrape
    save_interval,  \* the save_interval argument of scrape_all_pages
    saved,          \* the files written by save_progress: <<name, content>> in order
    pc              \* "loop" while scrape_all_pages iterates, then "done"

scraper_vars == <<all_data, page, fetched, page_data, partials, page_no, save_interval,
                  saved, pc>>

VARIABLES
    processed_data, \* HomeopathicDataProcessor.processed_data
    remedy_index,   \* remedy_index: remedy -> set of <<body part, symptom>>
    symptom_index,  \* symptom_index: symptom -> set of body parts
    raw_data,       \* raw_data of the last process_all call
    loads,          \* history: the number of process_all calls made
    outcome,        \* how the last process_all call ended
    op,             \* the query call in progress, or "idle"
    query,          \* body_parts and symptoms of the call in progress
    result,         \* result of the call in progress
    set_order       \* the iteration order of sets in this process

processor_vars == <<processed_data, remedy_index, symptom_index, raw_data, loads,
                    outcome, op, query, result, set_order>>

VARIABLES
    section_data,   \* data[section_name] of scrape_repertory_section
    bold_tags,      \* the text of the bold tags of the last link
    extracted_data, \* extracted_data of the last loop iteration
    scraped,        \* history: the bold_texts parsed for every link so far
    link_no,        \* i of scrape_repertory_section: the next link
    section_file,   \* the content of output_file, None until it is written
    section_pc      \* "loop" while scrape_repertory_section iterates

section_vars == <<section_data, bold_tags, extracted_data, scraped, link_no,
                  section_file, section_pc>>

vars == <<scraper_vars, processor_vars, section_vars>>

\* save_progress(filename): json.dump(self.all_data) into the named file
save_progress(files, name, data) == Append(files, <<name, data>>)

\* "if i % save_interval == 0: self.save_progress(f'kent_progress_page_{i}.json')"
PeriodicSave(files, i, interval, data) ==
    IF i % interval = 0
    THEN save_progress(files, <<"kent_progress_page", i>>, data)
    ELSE files

\* KentRepertoryScraper.__init__ and the start of scrape_all_pages(start_page = 1)
ScraperInit ==
    /\ all_data = EmptyDict
    /\ page = EmptyPage
    /\ fetched = "none"
    /\ page_data = EmptyDict
    /\ partials = <<>>
    /\ page_no = 1
    /\ save_interval \in SaveIntervals
    /\ saved = <<>>
    /\ pc = "loop"

\* One iteration of the loop of scrape_all_pages on a page that was fetched
\* and has lines: parse_lines, merge_data, the periodic save.
ScrapePage ==
    /\ pc = "loop"
    /\ page_no <= MaxPages
    /\ \E response \in FetchOutcomes, served \in SitePages :
         LET got      == get_page_lines_and_body_parts(response, served)
             new_data == parse_lines(got.lines, got.body_parts)
             merged   == merge_data(all_data, new_data)
         IN  /\ got.lines # <<>>
             /\ fetched' = response
             /\ page' = got
             /\ page_data' = new_data
             /\ all_data' = merged
             /\ partials' = Append(partials, new_data)
             /\ saved' = PeriodicSave(saved, page_no, save_interval, merged)
    /\ page_no' = page_no + 1
    /\ UNCHANGED <<save_interval, pc>>

\* The iteration at a page without content, with the handler of line 165
\* raising again instead of returning ([], set()): the exception reaches line
\* 300, and the rest of the iteration, the periodic save included, is skipped.
PageFailedRaises ==
    /\ pc = "loop"
    /\ page_no <= MaxPages
    /\ \E response \in FetchOutcomes, served \in SitePages \cup {EmptyPage} :
         LET got == get_page_lines_and_body_parts(response, served)
         IN  /\ got.lines = <<>>
             /\ fetched' = response
             /\ IF fetched' = "response"
                THEN /\ page' = got
                     /\ saved' = PeriodicSave(saved, page_no, save_interval, all_data)
                ELSE UNCHANGED <<page, saved>>
    /\ page_no' = page_no + 1
    /\ UNCHANGED <<all_data, page_data, partials, save_interval, pc>>

\* One iteration on a page that yields no lines: make_request raised or
\* returned None, or the page holds no text.  Line 285 reports it, and the
\* iteration goes on to the periodic save.
PageFailed ==
    /\ pc = "loop"
    /\ page_no <= MaxPages
    /\ \E response \in FetchOutcomes, served \in SitePages \cup {EmptyPage} :
         LET got == get_page_lines_and_body_parts(response, served)
         IN  /\ got.lines = <<>>
             /\ fetched' = response
             /\ page' = got
    /\ saved' = PeriodicSave(saved, page_no, save_interval, all_data)
    /\ page_no' = page_no + 1
    /\ UNCHANGED <<all_data, page_data, partials, save_interval, pc>>

\* The loop is exhausted: the final save.
FinalSave ==
    /\ pc = "loop"
    /\ page_no > MaxPages
    /\ saved' = save_progress(saved, <<"kent_repertory_complete", 0>>, all_data)
    /\ pc' = "done"
    /\ UNCHANGED <<all_data, page, fetched, page_data, partials, page_no, save_interval>>

\* A KeyboardInterrupt in an iteration of the loop, while the page is fetched
\* or parsed or while merge_data runs: the handler of lines 296-299 saves
\* all_data as it stands and leaves the loop, and the final save follows.
Interrupt ==
    /\ pc = "loop"
    /\ page_no <= MaxPages
    /\ \E served \in SitePages :
         LET new_data == parse_lines(served.lines, served.body_parts)
         IN  \E reached \in InterruptedStates(all_data, new_data) :
                 /\ page' = served
                 /\ page_data' = new_data
                 /\ all_data' = reached
                 /\ saved' = save_progress(
                                 save_progress(saved, <<"kent_interrupted", 0>>, reached),
                                 <<"kent_repertory_complete", 0>>, reached)
    /\ fetched' = "response"
    /\ pc' = "done"
    /\ UNCHANGED <<partials, page_no, save_interval>>

\* A KeyboardInterrupt raised between two iterations, where the for statement
\* of line 271 advances outside the try statement of lines 272-302: no handler
\* of scrape_all_pages catches it, main catches Exception only, and the
\* process ends without another save.
InterruptEscapes ==
    /\ pc = "loop"
    /\ page_no > 1
    /\ pc' = "killed"
    /\ UNCHANGED <<all_data, page, fetched, page_data, partials, page_no,
                   save_interval, saved>>


\* ------------------------------------------------------------ processor state

\* KentRepertoryScraper and HomeopathicDataProcessor are two programs; the
\* second reads the JSON file the first wrote.  Spec runs the scraper, SpecProc
\* the processor; each leaves the other program's variables alone.
ScraperIdle ==
    /\ all_data = EmptyDict
    /\ page = EmptyPage
    /\ fetched = "none"
    /\ page_data = EmptyDict
    /\ partials = <<>>
    /\ page_no = 1
    /\ save_interval = CHOOSE n \in SaveIntervals : TRUE
    /\ saved = <<>>
    /\ pc = "idle"

\* HomeopathicDataProcessor.__init__
ProcessorInit ==
    /\ processed_data = EmptyDict
    /\ remedy_index = EmptyDict
    /\ symptom_index = EmptyDict
    /\ raw_data = EmptyDict
    /\ loads = 0
    /\ outcome = "none"
    /\ op = "idle"
    /\ query = [body_parts |-> <<>>, symptoms |-> <<>>]
    /\ result = EmptyDict

ProcessorIdle ==
    /\ ProcessorInit
    /\ set_order = CHOOSE o \in SetOrders : TRUE

\* process_all(input_filename) on a file holding RawInputs[n] (a file that is
\* missing or no JSON loads as {}): with no data it returns {}; otherwise it
\* stores process_data_structure's result and then fails at datetime.now(),
\* datetime being the module imported at line 440.
ProcessAll ==
    /\ op = "idle"
    /\ loads < MaxLoads
    /\ \E n \in 1..Len(RawInputs) :
         LET loaded == RawInputs[n]
             done   == process_data_structure(loaded, remedy_index, symptom_index)
         IN  /\ raw_data' = loaded
             /\ IF loaded = EmptyDict
                THEN /\ outcome' = "returned_empty"
                     /\ UNCHANGED <<processed_data, remedy_index, symptom_index>>
                ELSE /\ processed_data' = done.processed
                     /\ remedy_index' = done.remedy_index
                     /\ symptom_index' = done.symptom_index
                     /\ outcome' = "AttributeError"
    /\ loads' = loads + 1
    /\ UNCHANGED <<op, query, result, set_order>>

\* A call of find_common_remedies(body_parts, symptoms), up to its return
\* statement: result is the value it returns.
FindCommonRemedies ==
    /\ op = "idle"
    /\ \E body_parts \in QueryLists(QueryBodyParts), symptoms \in QueryLists(QuerySymptoms) :
         /\ query' = [body_parts |-> body_parts, symptoms |-> symptoms]
         /\ result' = find_common_remedies(processed_data, symptom_index, set_order,
                                           body_parts, symptoms)
    /\ op' = "find_common_remedies"
    /\ UNCHANGED <<processed_data, remedy_index, symptom_index, raw_data, loads,
                   outcome, set_order>>

\* A call of get_remedy_details(remedy), up to its return statement.
GetRemedyDetails ==
    /\ op = "idle"
    /\ \E remedy \in DetailRemedies :
         LET done == get_remedy_details(remedy_index, remedy)
         IN  /\ remedy_index' = done.remedy_index
             /\ result' = done.details
    /\ op' = "get_remedy_details"
    /\ UNCHANGED <<processed_data, symptom_index, raw_data, loads, outcome,
                   query, set_order>>

\* A call of get_symptom_alternatives(symptom, body_part), up to its return
\* statement.
GetSymptomAlternatives ==
    /\ op = "idle"
    /\ \E symptom \in AlternativeSymptoms, body_part \in AlternativeBodyParts :
         result' = get_symptom_alternatives(processed_data, symptom, body_part)
    /\ op' = "get_symptom_alternatives"
    /\ UNCHANGED <<processed_data, remedy_index, symptom_index, raw_data, loads,
                   outcome, query, set_order>>

\* The call has returned: its locals are gone and the processor is free for
\* the next call.
Return ==
    /\ op # "idle"
    /\ op' = "idle"
    /\ query' = [body_parts |-> <<>>, symptoms |-> <<>>]
    /\ result' = EmptyDict
    /\ UNCHANGED <<processed_data, remedy_index, symptom_index, raw_data, loads,
                   outcome, set_order>>

\* scrape_repertory_section before its loop: data = {section_name: {}}
SectionInit ==
    /\ section_data = EmptyDict
    /\ bold_tags = <<>>
    /\ extracted_data = EmptyDict
    /\ scraped = <<>>
    /\ link_no = 1
    /\ section_file = None
    /\ section_pc = "loop"

\* ImprovedHomeopathicScraper is a third program; the other specifications
\* leave it where it has not started.
SectionIdle ==
    /\ section_data = EmptyDict
    /\ bold_tags = <<>>
    /\ extracted_data = EmptyDict
    /\ scraped = <<>>
    /\ link_no = 1
    /\ section_file = None
    /\ section_pc = "idle"

ProcInit ==
    /\ ScraperIdle
    /\ ProcessorInit
    /\ set_order \in SetOrders
    /\ SectionIdle

ProcNext ==
    \/ ProcessAll /\ UNCHANGED <<scraper_vars, section_vars>>
    \/ FindCommonRemedies /\ UNCHANGED <<scraper_vars, section_vars>>
    \/ Return /\ UNCHANGED <<scraper_vars, section_vars>>

SpecProc == ProcInit /\ [][ProcNext]_vars

\* The processor with every query operation of its interface.
QueryNext ==
    \/ ProcessAll /\ UNCHANGED <<scraper_vars, section_vars>>
    \/ FindCommonRemedies /\ UNCHANGED <<scraper_vars, section_vars>>
    \/ GetRemedyDetails /\ UNCHANGED <<scraper_vars, section_vars>>
    \/ GetSymptomAlternatives /\ UNCHANGED <<scraper_vars, section_vars>>
    \/ Return /\ UNCHANGED <<scraper_vars, section_vars>>

SpecQuery == ProcInit /\ [][QueryNext]_vars

\* One iteration of the loop of scrape_repertory_section on a link whose page
\* gave symptoms: data[section_name].update(extracted_data).
ScrapeLink ==
    /\ section_pc = "loop"
    /\ link_no <= MaxLinks
    /\ \E tags \in BoldPages :
          LET extracted == extract_symptoms_medicines("response", tags)
          IN  /\ extracted # EmptyDict
              /\ bold_tags' = tags
              /\ extracted_data' = extracted
              /\ section_data' = Update(section_data, extracted)
              /\ scraped' = Append(scraped, extract_bold_text_structured(tags))
    /\ link_no' = link_no + 1
    /\ UNCHANGED <<section_file, section_pc>>

\* One iteration on a link that gave nothing: the requests failed, or the page
\* has no symptom with medicines; data is left as it is.
LinkEmpty ==
    /\ section_pc = "loop"
    /\ link_no <= MaxLinks
    /\ \E response \in BoldResponses, tags \in BoldPages :
          LET extracted == extract_symptoms_medicines(response, tags)
          IN  /\ extracted = EmptyDict
              /\ bold_tags' = IF response = "response" THEN tags ELSE <<>>
              /\ extracted_data' = extracted
    /\ link_no' = link_no + 1
    /\ UNCHANGED <<section_data, scraped, section_file, section_pc>>

\* After the last link: json.dump(data) into output_file.
SaveSection ==
    /\ section_pc = "loop"
    /\ link_no > MaxLinks
    /\ section_file' = section_data
    /\ section_pc' = "done"
    /\ UNCHANGED <<section_data, bold_tags, extracted_data, scraped, link_no>>

SectionNext ==
    \/ ScrapeLink /\ UNCHANGED <<scraper_vars, processor_vars>>
    \/ LinkEmpty /\ UNCHANGED <<scraper_vars, processor_vars>>
    \/ SaveSection /\ UNCHANGED <<scraper_vars, processor_vars>>

SectionSpecInit == ScraperIdle /\ ProcessorIdle /\ SectionInit

SpecSection == SectionSpecInit /\ [][SectionNext]_vars

Init == ScraperInit /\ ProcessorIdle /\ SectionIdle

Next ==
    \/ ScrapePage /\ UNCHANGED <<processor_vars, section_vars>>
    \/ PageFailed /\ UNCHANGED <<processor_vars, section_vars>>
    \/ FinalSave /\ UNCHANGED <<processor_vars, section_vars>>

Spec == Init /\ [][Next]_vars

\* The scraper with a user who may interrupt it.
InterruptNext ==
    \/ ScrapePage /\ UNCHANGED <<processor_vars, section_vars>>
    \/ PageFailed /\ UNCHANGED <<processor_vars, section_vars>>
    \/ Interrupt /\ UNCHANGED <<processor_vars, section_vars>>
    \/ FinalSave /\ UNCHANGED <<processor_vars, section_vars>>

SpecInterrupt == Init /\ [][InterruptNext]_vars

\* The scraper with interrupts at any point of the loop.  The loop is
\* sequential code whose steps end (every request has a timeout, every sleep
\* is bounded), so the run goes on while a step is possible.
LoopNext ==
    \/ ScrapePage /\ UNCHANGED <<processor_vars, section_vars>>
    \/ PageFailed /\ UNCHANGED <<processor_vars, section_vars>>
    \/ Interrupt /\ UNCHANGED <<processor_vars, section_vars>>
    \/ InterruptEscapes /\ UNCHANGED <<processor_vars, section_vars>>
    \/ FinalSave /\ UNCHANGED <<processor_vars, section_vars>>

SpecLoop == Init /\ [][LoopNext]_vars /\ WF_vars(LoopNext)

\* ------------------------------------------------------ repertory structure

\* The (body part, symptom) keys of a repertory.
SymptomKeys(d) ==
    UNION {{<<d[b][1], d[b][2][s][1]>> : s \in 1..Len(d[b][2])} : b \in 1..Len(d)}

\* The (body part, symptom, sub-symptom) leaves of a repertory.
Leaves(d) ==
    UNION {UNION {{<<d[b][1], d[b][2][s][1], d[b][2][s][2][u][1]>> :
                      u \in 1..Len(d[b][2][s][2])} :
                  s \in 1..Len(d[b][2])} :
           b \in 1..Len(d)}

\* The remedy list at a leaf.
Leaf(d, t) == Get(Get(Get(d, t[1]), t[2]), t[3])

\* Python's == on two nested dicts compares keys and values, not insertion order.
SameKeys(x, y) ==
    /\ Keys(x) = Keys(y)
    /\ SymptomKeys(x) = SymptomKeys(y)
    /\ Leaves(x) = Leaves(y)

\* Same keys and the same remedy list at every leaf.
SameRepertory(x, y) ==
    SameKeys(x, y) /\ \A t \in Leaves(x) : Leaf(x, t) = Leaf(y, t)

\* Same keys and the same remedy set at every leaf.
SameRemedySets(x, y) ==
    SameKeys(x, y) /\ \A t \in Leaves(x) : Range(Leaf(x, t)) = Range(Leaf(y, t))

\* The page partials of the pages the site may serve.
SitePartials == {parse_lines(pg.lines, pg.body_parts) : pg \in SitePages}

\* "throbbing, worse motion"
S_Throbbing == <<116,104,114,111,98,98,105,110,103,44,32,119,111,114,115,101,32,109,111,116,105,111,110>>

\* ------------------------------------------------------------------ claims

\* C1: merge is idempotent. For the accumulated repertory R = all_data of every
\* reachable state and every page partial A, merging A into merge_data(R, A)
\* again yields the same keys and the same leaf contents as merge_data(R, A).
C1_MergeIdempotent ==
    \A A \in SitePartials :
        LET once == merge_data(all_data, A)
        IN  SameRepertory(merge_data(once, A), once)

\* The same non-empty page data was merged twice in a row into a repertory
\* that already held other data.
C1_Witness ==
    /\ Len(partials) = 3
    /\ partials[1] # EmptyDict
    /\ partials[2] # EmptyDict
    /\ partials[2] # partials[1]
    /\ partials[3] = partials[2]
    /\ all_data = merge_data(merge_data(merge_data(EmptyDict, partials[1]),
                                        partials[2]), partials[3])

\* C2: merge is order-independent. After exactly two pages A then B were merged
\* into the empty repertory, all_data has the same keys and the same remedy set
\* at every leaf as merging B then A.
C2_MergeOrderIndependent ==
    Len(partials) = 2 =>
        SameRemedySets(all_data,
                       merge_data(merge_data(EmptyDict, partials[2]), partials[1]))

\* Two different non-empty partials sharing a leaf were merged, and the other
\* order inserts the keys in another order.
C2_Witness ==
    /\ Len(partials) = 2
    /\ partials[1] # partials[2]
    /\ Leaves(partials[1]) \cap Leaves(partials[2]) # {}
    /\ Leaves(partials[1]) # Leaves(partials[2])
    /\ all_data # merge_data(merge_data(EmptyDict, partials[2]), partials[1])

\* C3: leaf non-emptiness. No leaf of all_data (nor of the page's own partial
\* map) holds an empty remedy list.
C3_NoEmptyLeaf ==
    /\ \A t \in Leaves(all_data) : Leaf(all_data, t) # <<>>
    /\ \A t \in Leaves(page_data) : Leaf(page_data, t) # <<>>

\* Three pages were folded in: one whose header line carries no remedy, one
\* that yields nothing at all, and the repertory holds several leaves.
C3_Witness ==
    /\ Len(partials) = 3
    /\ page = PgNoDot
    /\ page_data = EmptyDict
    /\ parse_lines(PgMorning.lines, PgMorning.body_parts) \in Range(partials)
    /\ Cardinality(Leaves(all_data)) >= 2

\* C4: every leaf of all_data is strictly increasing in the order of str, that
\* is sorted and free of duplicates.
C4_LeavesSortedUnique ==
    \A t \in Leaves(all_data) :
        LET leaf == Leaf(all_data, t)
        IN  \A k \in 1..(Len(leaf) - 1) : StrLess(leaf[k], leaf[k + 1])

\* Two pages both contributed Bell to HEAD/PAIN/general, and the merged leaf
\* holds Bell once beside another remedy.
C4_Witness ==
    /\ Len(partials) = 2
    /\ \A k \in 1..2 :
          /\ <<L_HEAD, S_PAIN, General>> \in Leaves(partials[k])
          /\ S_Bell \in Range(Leaf(partials[k], <<L_HEAD, S_PAIN, General>>))
    /\ Leaf(all_data, <<L_HEAD, S_PAIN, General>>) = <<S_Acon, S_Bell>>

\* C5 as stated: the page of Scenario 1 parses to
\* {"HEAD": {"PAIN": {"throbbing, worse motion": ["Bell", "Nux-v"]}}}.
C5_Original ==
    page = PgScenario1 =>
        page_data = << <<L_HEAD, << <<S_PAIN, << <<S_Throbbing, <<S_Bell, S_Nuxv>> >> >> >> >> >> >>

\* C5 amended: the page of Scenario 1 parses to
\* {"HEAD": {"PAIN": {"general": ["Bell", "Nux-v"]}}}: the header pattern
\* captures "PAIN", the remainder starts with the colon, so the text before the
\* remainder's first colon is empty and the sub-symptom is "general".
C5_Scenario1General ==
    page = PgScenario1 =>
        page_data = << <<L_HEAD, << <<S_PAIN, << <<General, <<S_Bell, S_Nuxv>> >> >> >> >> >> >>

\* The page of Scenario 1 was the last page parsed.
C5_Witness == page = PgScenario1 /\ page_data # EmptyDict

\* -------------------------------------------------------------- query results

\* The call in progress is find_common_remedies and has computed its result.
Queried == op = "find_common_remedies"

\* The remedies listed at a location of the processed repertory, none when
\* the body part or the symptom is absent.
RemediesAt(body_part, symptom) ==
    IF Has(processed_data, body_part) /\ Has(Get(processed_data, body_part), symptom)
    THEN Get(Get(processed_data, body_part), symptom)
    ELSE <<>>

\* The distinct locations of the query at which a remedy is listed.
LocationsOf(remedy) ==
    {loc \in Range(query.body_parts) \X Range(query.symptoms) :
        remedy \in Range(RemediesAt(loc[1], loc[2]))}

\* The score of a remedy in a result, 0 when the remedy is absent.
ScoreIn(res, remedy) == IF Has(res, remedy) THEN Get(res, remedy).score ELSE 0

\* A query list that names nothing twice.
IsSet(names) == Cardinality(Range(names)) = Len(names)

\* The places <<i, j, k>> at which the query reaches a remedy: body part i and
\* symptom j of the query, entry k of the remedy list found there.
Visits(remedy) ==
    UNION {UNION {{<<i, j, k>> :
                      k \in {k \in DOMAIN RemediesAt(query.body_parts[i], query.symptoms[j]) :
                                RemediesAt(query.body_parts[i], query.symptoms[j])[k] = remedy}} :
                  j \in DOMAIN query.symptoms} :
           i \in DOMAIN query.body_parts}

LexLess(v, w) ==
    \/ v[1] < w[1]
    \/ v[1] = w[1] /\ v[2] < w[2]
    \/ v[1] = w[1] /\ v[2] = w[2] /\ v[3] < w[3]

\* The first place at which the query reaches a remedy.
FirstVisit(remedy) ==
    CHOOSE v \in Visits(remedy) : \A w \in Visits(remedy) : v = w \/ LexLess(v, w)

\* A name of the query that the processed repertory holds.
KnownBodyPart(body_part) == Has(processed_data, body_part)
KnownSymptom(symptom) ==
    \E k \in DOMAIN processed_data : Has(processed_data[k][2], symptom)

\* C6 as stated: the repertory parsed from Scenario 1, processed and queried
\* with body parts ["HEAD"] and symptoms ["PAIN"], yields Bell with score 1 and
\* matched location "HEAD:PAIN", followed by Nux-v with score 1.
C6_Original ==
    (/\ Queried
     /\ raw_data = RawScenario1
     /\ query = [body_parts |-> <<L_HEAD>>, symptoms |-> <<S_PAIN>>])
    => /\ Len(result) = 2
       /\ result[1][1] = S_Bell
       /\ result[1][2].score = 1
       /\ result[1][2].matches = <<Location(L_HEAD, S_PAIN)>>
       /\ result[2][1] = S_Nuxv
       /\ result[2][2].score = 1

\* C7 as stated: in every result a remedy's score is the number of distinct
\* locations of the query at which the remedy is listed, and no location is
\* recorded twice in the remedy's matches.
C7_Original ==
    Queried =>
        \A k \in DOMAIN result :
            /\ result[k][2].score = Cardinality(LocationsOf(result[k][1]))
            /\ Len(result[k][2].matches) = Cardinality(Range(result[k][2].matches))

\* C8 as stated: every result is ordered by score descending, and remedies with
\* equal score are ordered by remedy name ascending.
C8_Original ==
    Queried =>
        \A a, b \in DOMAIN result :
            a < b => \/ result[a][2].score > result[b][2].score
                     \/ /\ result[a][2].score = result[b][2].score
                        /\ StrLess(result[a][1], result[b][1])

\* C8 amended: every result is ordered by score descending, and remedies with
\* equal score stand in the order in which the query first reaches them: body
\* parts in the order of the query, then symptoms in the order of the query,
\* then the order of the location's remedy list.
C8_ScoreDescendingStable ==
    Queried =>
        \A a, b \in DOMAIN result :
            a < b => \/ result[a][2].score > result[b][2].score
                     \/ /\ result[a][2].score = result[b][2].score
                        /\ LexLess(FirstVisit(result[a][1]), FirstVisit(result[b][1]))

\* A result with a drop in score and a tie that is not in name order.
C8_Witness ==
    /\ Queried
    /\ \E a, b \in DOMAIN result : result[a][2].score > result[b][2].score
    /\ \E a, b \in DOMAIN result :
          /\ a < b
          /\ result[a][2].score = result[b][2].score
          /\ StrLess(result[b][1], result[a][1])

\* C9: query monotonicity.  A list without repetitions stands for the set of
\* its names.  For the repertory and the body parts of the call, whose symptoms
\* are a set S, and every symptom set S' of the bound that includes S, each
\* remedy scores under S' at least what it scores in the call; a remedy absent
\* from a result scores 0.
C9_QueryMonotone ==
    (Queried /\ IsSet(query.symptoms)) =>
        \A more \in QueryLists(QuerySymptoms) :
            (IsSet(more) /\ Range(query.symptoms) \subseteq Range(more))
            => LET larger == find_common_remedies(processed_data, symptom_index, set_order,
                                                  query.body_parts, more)
               IN  \A k \in DOMAIN result :
                       ScoreIn(larger, result[k][1]) >= result[k][2].score

\* A call that scores a remedy on a symptom set that a larger set of the bound
\* extends with a symptom the repertory holds.
C9_Witness ==
    /\ Queried
    /\ IsSet(query.symptoms)
    /\ result # EmptyDict
    /\ Len(query.symptoms) < MaxQuery
    /\ \E x \in QuerySymptoms : x \notin Range(query.symptoms) /\ KnownSymptom(x)

\* C10: names absent from the repertory contribute nothing.  The result of a
\* call equals the result of the call with the unknown body parts and symptoms
\* removed, and no match names an unknown body part or symptom.
C10_UnknownNamesIgnored ==
    Queried =>
        /\ result = find_common_remedies(processed_data, symptom_index, set_order,
                                         SelectSeq(query.body_parts, KnownBodyPart),
                                         SelectSeq(query.symptoms, KnownSymptom))
        /\ \A k \in DOMAIN result :
               /\ \A b \in result[k][2].body_parts : KnownBodyPart(b)
               /\ \A x \in result[k][2].symptoms : KnownSymptom(x)

\* A call with an unknown body part and an unknown symptom that still finds
\* remedies.
C10_Witness ==
    /\ Queried
    /\ result # EmptyDict
    /\ \E b \in Range(query.body_parts) : ~KnownBodyPart(b)
    /\ \E x \in Range(query.symptoms) : ~KnownSymptom(x)

\* ---------------------------------------------------- the loop of parse_lines

\* The states of parse_lines at the head of its loop, one per iteration, and
\* the state the loop ends in.
RECURSIVE Iterations(_, _, _)
Iterations(st, lines, body_parts) ==
    IF st.i > Len(lines) THEN <<st>>
    ELSE <<st>> \o Iterations(ParseStep(st, lines, body_parts), lines, body_parts)

\* Line i names a body part and the next line is its page number.
IsMarkerAt(lines, body_parts, i) ==
    /\ lines[i] \in body_parts
    /\ i + 1 <= Len(lines)
    /\ IsPageNumber(Lower(lines[i + 1]))

\* The line examined in state st has no recognized shape: it is no marker,
\* no symptom header, and no symptom is current for it to continue.
Unrecognized(st, lines, body_parts) ==
    /\ ~IsMarkerAt(lines, body_parts, st.i)
    /\ ~HeaderMatches(lines[st.i])
    /\ st.current_symptom = None

\* C12: parse_lines is total.  On the page of the last iteration the loop
\* starts at the first line, every iteration moves strictly forward (by two
\* lines at a body-part marker, which takes its page-number line with it, by
\* one line otherwise), so that no line is examined twice and the loop ends
\* just past the last line after at most one iteration per line and hands its
\* data to the caller; a line of no recognized shape leaves the parsed data as
\* it was.
C12_ParseLinesTotal ==
    LET lines == page.lines
        its   == Iterations(ParseStart, lines, page.body_parts)
        n     == Len(its) - 1
    IN  /\ n <= Len(lines)
        /\ its[1].i = 1
        /\ its[n + 1].i = Len(lines) + 1
        /\ (lines # <<>> => page_data = CleanLeaves(its[n + 1].data))
        /\ \A k \in 1..n :
               /\ its[k + 1].i = its[k].i
                                 + (IF IsMarkerAt(lines, page.body_parts, its[k].i)
                                    THEN 2 ELSE 1)
               /\ Unrecognized(its[k], lines, page.body_parts)
                      => its[k + 1].data = its[k].data

\* A parsed page with a body-part marker, a line of no recognized shape, and a
\* body-part name as its last line.
C12_Witness ==
    LET lines == page.lines
        its   == Iterations(ParseStart, lines, page.body_parts)
    IN  /\ lines # <<>>
        /\ lines[Len(lines)] \in page.body_parts
        /\ \E k \in 1..(Len(its) - 1) : IsMarkerAt(lines, page.body_parts, its[k].i)
        /\ \E k \in 1..(Len(its) - 1) : Unrecognized(its[k], lines, page.body_parts)

\* The iterations of parse_lines on the page of the last loop iteration.
PageIterations == Iterations(ParseStart, page.lines, page.body_parts)

\* C21: the body part changes only at a marker.  In every iteration of
\* parse_lines, current_body_part changes only when the line is a body-part
\* name followed by a page-number line, and then it becomes that name,
\* current_symptom is reset, both lines are consumed and the data stay as they
\* were; a body-part name without a page-number line after it leaves
\* current_body_part alone.
C21_BodyPartChangesAtMarker ==
    LET lines == page.lines
        its   == PageIterations
    IN  \A k \in 1..(Len(its) - 1) :
            LET st     == its[k]
                nx     == its[k + 1]
                marker == IsMarkerAt(lines, page.body_parts, st.i)
            IN  /\ nx.current_body_part # st.current_body_part => marker
                /\ marker => /\ nx.current_body_part = lines[st.i]
                             /\ nx.current_symptom = None
                             /\ nx.i = st.i + 2
                             /\ nx.data = st.data
                /\ (lines[st.i] \in page.body_parts /\ ~marker)
                       => nx.current_body_part = st.current_body_part

\* A page on which one body-part name stands without a page-number line and
\* another, with one, changes the body part while a symptom is current.
C21_Witness ==
    LET lines == page.lines
        its   == PageIterations
    IN  /\ \E k \in 1..(Len(its) - 1) :
               /\ lines[its[k].i] \in page.body_parts
               /\ ~IsMarkerAt(lines, page.body_parts, its[k].i)
        /\ \E k \in 1..(Len(its) - 1) :
               /\ IsMarkerAt(lines, page.body_parts, its[k].i)
               /\ its[k].current_symptom # None
               /\ its[k + 1].current_body_part # its[k].current_body_part

\* C22: nothing is recorded without a body part and a symptom.  An iteration
\* of parse_lines that starts without a current body part, or that has no
\* current symptom and no header on its line, leaves the data as they were; so
\* every body part and symptom of the parsed data was current at some line.
C22_RecordsNeedBodyPartAndSymptom ==
    LET lines == page.lines
        its   == PageIterations
    IN  \A k \in 1..(Len(its) - 1) :
            LET st == its[k]
                nx == its[k + 1]
            IN  /\ st.current_body_part = None => nx.data = st.data
                /\ (st.current_symptom = None /\ ~HeaderMatches(lines[st.i]))
                       => nx.data = st.data
                /\ nx.data # st.data =>
                       /\ Has(nx.data, st.current_body_part)
                       /\ Has(Get(nx.data, st.current_body_part), nx.current_symptom)

\* A page with remedies on a header line before the first marker and on a
\* line between a marker and the next header: nothing is recorded.
C22_Witness ==
    LET lines == page.lines
        its   == PageIterations
    IN  /\ page_data = EmptyDict
        /\ \E k \in 1..(Len(its) - 1) :
               /\ its[k].current_body_part = None
               /\ HeaderMatches(lines[its[k].i])
               /\ FindMeds(lines[its[k].i], 1) # <<>>
        /\ \E k \in 1..(Len(its) - 1) :
               /\ its[k].current_body_part # None
               /\ its[k].current_symptom = None
               /\ ~HeaderMatches(lines[its[k].i])
               /\ FindMeds(lines[its[k].i], 1) # <<>>

\* Noise in the sense of the specification, on the lowercased text: a
\* page-number line ("p. <digits>", "page <digits>"), bare digits, a
\* navigation word, copyright boilerplate, or nothing at all.
IsNoise(text) ==
    LET s      == Lower(text)
        Digits(t) == t # <<>> /\ \A k \in 1..Len(t) : t[k] \in DigitChars
    IN  \/ s = <<>>
        \/ IsPageNumber(s)
        \/ /\ Len(s) > 4
           /\ SubSeq(s, 1, 4) = <<112,97,103,101>>
           /\ Digits(Strip(SubSeq(s, 5, Len(s))))
        \/ Digits(s)
        \/ s \in {<<110,101,120,116>>, <<112,114,101,118>>, <<104,111,109,101>>}
        \/ Contains(s, <<99,111,112,121,114,105,103,104,116>>)

\* C23: noise never contributes a remedy.  An iteration of parse_lines whose
\* line is noise leaves the data as they were, also while a body part and a
\* symptom are current.
C23_Original ==
    LET its == PageIterations
    IN  \A k \in 1..(Len(its) - 1) :
            IsNoise(page.lines[its[k].i]) => its[k + 1].data = its[k].data

\* The name a header line opens with: its text up to the first space.
FirstWord(line) ==
    SubSeq(line, 1, (CHOOSE k \in 1..Len(line) :
                        line[k] = 32 /\ \A j \in 1..(k - 1) : line[j] # 32) - 1)

\* A header line made of an all-uppercase name, a space, and tokens that
\* begin with a capital letter, such as "PAIN Bell. Nux-v.".
NameThenTokens(line) ==
    /\ HasChar(line, 32)
    /\ LET name == FirstWord(line)
       IN  /\ Len(name) >= 2
           /\ \A k \in 1..Len(name) : name[k] \in UpperChars
           /\ Len(line) >= Len(name) + 3
           /\ line[Len(name) + 2] \in UpperChars
           /\ line[Len(name) + 3] \in LowerChars

\* C27: a header followed by a space and remedies is split at the space.  In
\* an iteration on such a line current_symptom becomes exactly the uppercase
\* name, and the remedies recorded are the tokens after the name, whole.
C27_Original ==
    LET lines == page.lines
        its   == PageIterations
    IN  \A k \in 1..(Len(its) - 1) :
            LET st   == its[k]
                line == lines[st.i]
                name == FirstWord(line)
                rest == Strip(SubSeq(line, Len(name) + 1, Len(line)))
                meds == CleanMeds(FindMeds(MedsPartOf(rest), 1))
            IN  (NameThenTokens(line) /\ ~IsMarkerAt(lines, page.body_parts, st.i)) =>
                    /\ its[k + 1].current_symptom = name
                    /\ its[k + 1].data =
                           IF ShouldStore(st.current_body_part, name, meds)
                           THEN Store(st.data, st.current_body_part, name,
                                      SubSymptomOf(rest), meds)
                           ELSE st.data

\* ---------------------------------------------------- claims of the scraper

\* The remedies at a leaf, none when the repertory has no such leaf.
RemedySet(d, t) == IF t \in Leaves(d) THEN Range(Leaf(d, t)) ELSE {}

\* C24: merge_data is a leaf-wise union.  Every iteration that merges a page
\* leaves all_data with exactly the leaves of the repertory before and of the
\* page, and at each of them with the remedies of the two together: a leaf the
\* page does not have is unchanged and no remedy is removed.
C24_MergeIsLeafwiseUnion ==
    [][(page_no' # page_no /\ page'.lines # <<>>) =>
          /\ Leaves(all_data') = Leaves(all_data) \cup Leaves(page_data')
          /\ \A t \in Leaves(all_data') :
                 RemedySet(all_data', t) =
                     RemedySet(all_data, t) \cup RemedySet(page_data', t)]_vars

\* The last page was merged into a repertory of earlier pages: one leaf took
\* remedies from both, and another leaf, absent from the page, is still there.
C24_Witness ==
    /\ Len(partials) >= 2
    /\ page_data = partials[Len(partials)]
    /\ \E t \in Leaves(page_data) :
           /\ RemedySet(page_data, t) # RemedySet(all_data, t)
           /\ RemedySet(page_data, t) # {}
    /\ \E t \in Leaves(all_data) : t \notin Leaves(page_data)

\* C18: a fetch failure is an empty page.  When make_request raises after its
\* last attempt or returns None, the iteration gets no lines from
\* get_page_lines_and_body_parts, leaves all_data and the parsed history as
\* they were, goes on to its periodic save, and the loop continues with the
\* next page.
C18_FetchFailureIsEmptyPage ==
    [][(page_no' # page_no /\ fetched' \in {"raised", "None"}) =>
          /\ page' = EmptyPage
          /\ all_data' = all_data
          /\ partials' = partials
          /\ saved' = PeriodicSave(saved, page_no, save_interval, all_data)
          /\ page_no' = page_no + 1
          /\ pc' = "loop"]_vars

\* Pages were merged, then make_request raised at a page where a periodic save
\* is due, and the repertory still holds what was merged.
C18_Witness ==
    /\ fetched = "raised"
    /\ page = EmptyPage
    /\ all_data # EmptyDict
    /\ saved # <<>>
    /\ saved[Len(saved)] = <<<<"kent_progress_page", page_no - 1>>, all_data>>

\* C19: every snapshot is a valid repertory.  Every file save_progress has
\* written, whether periodic, on interruption or final, holds no empty leaf
\* and only leaves that are sorted and free of duplicates.
C19_Original ==
    \A n \in 1..Len(saved) :
        LET snapshot == saved[n][2]
        IN  \A t \in Leaves(snapshot) :
                LET leaf == Leaf(snapshot, t)
                IN  /\ leaf # <<>>
                    /\ \A k \in 1..(Len(leaf) - 1) : StrLess(leaf[k], leaf[k + 1])

\* ------------------------------------------------- claims of the processor

\* C11: an empty query is answered with an empty result.  A call of
\* find_common_remedies whose body_parts and symptoms are both empty returns
\* the empty dict, whatever processed_data holds.
C11_EmptyQueryEmptyResult ==
    (Queried /\ query.body_parts = <<>> /\ query.symptoms = <<>>)
        => result = EmptyDict

\* The empty query put to a processor whose repertory lists remedies.
C11_Witness ==
    /\ Queried
    /\ query.body_parts = <<>>
    /\ query.symptoms = <<>>
    /\ \E b \in DOMAIN processed_data : processed_data[b][2] # EmptyDict

\* The last process_all call went through process_data_structure.
Processed == loads > 0 /\ outcome # "returned_empty"

\* C13: no body part of processed_data is left without symptoms.  Every
\* body-part key of processed_data maps to a non-empty symptom mapping.
C13_Original ==
    \A b \in DOMAIN processed_data : processed_data[b][2] # EmptyDict

\* The pairs <<body part, symptom>> under which processed_data lists a remedy.
ListedAt(remedy) ==
    {loc \in Keys(processed_data) \X Keys(symptom_index) :
        remedy \in Range(RemediesAt(loc[1], loc[2]))}

\* The remedies processed_data lists anywhere.
ListedRemedies ==
    UNION {Range(RemediesAt(b, x)) : b \in Keys(processed_data), x \in Keys(symptom_index)}

\* The entry of an index under a key, empty when the key is absent.
IndexAt(index, key) == IF Has(index, key) THEN Get(index, key) ELSE {}

\* C14: the indices are exact after process_data_structure.  After the first
\* load of a processor, a pair <<body part, symptom>> is in remedy_index[remedy]
\* exactly when processed_data lists the remedy under that body part and
\* symptom, and a body part is in symptom_index[symptom] exactly when the
\* symptom is a key of processed_data[body part].
C14_Original ==
    (Processed /\ loads = 1) =>
        /\ \A remedy \in Keys(remedy_index) \cup ListedRemedies :
               IndexAt(remedy_index, remedy) = ListedAt(remedy)
        /\ \A symptom \in Keys(symptom_index) :
               Get(symptom_index, symptom) =
                   {b \in Keys(processed_data) : Has(Get(processed_data, b), symptom)}

\* Two indices with the same keys and the same set under every key.
SameIndex(a, b) ==
    /\ Keys(a) = Keys(b)
    /\ \A key \in Keys(a) : Get(a, key) = Get(b, key)

\* C15: the indices are rebuilt wholesale.  After a second repertory has been
\* processed, remedy_index and symptom_index hold exactly the entries a fresh
\* processor derives from that repertory, and none from the first.
C15_Original ==
    (Processed /\ loads = 2) =>
        LET fresh == process_data_structure(raw_data, EmptyDict, EmptyDict)
        IN  /\ SameIndex(remedy_index, fresh.remedy_index)
            /\ SameIndex(symptom_index, fresh.symptom_index)

\* C17: process_all is total.  Every call of process_all returns the final
\* structure with 'data' and 'validation_report'; none ends in an exception
\* or in a value without them.
C17_Original ==
    loads > 0 => outcome = "returned_structure"

\* The query operations of the processor.
QueryOps == {"find_common_remedies", "get_remedy_details", "get_symptom_alternatives"}

\* C16: the query operations only read.  No call of find_common_remedies,
\* get_remedy_details or get_symptom_alternatives, with known or unknown
\* names, changes processed_data, remedy_index or symptom_index, and so none
\* changes the totals validate_data_structure reports.
C16_Original ==
    [][op' \in QueryOps =>
          /\ UNCHANGED <<processed_data, remedy_index, symptom_index>>
          /\ Len(remedy_index') = Len(remedy_index)]_vars

\* C20: stored symptom keys are normalized.  Every symptom key of
\* processed_data is a fixed point of normalize_symptom_name.
C20_KeysAreFixedPoints ==
    \A b \in DOMAIN processed_data :
        \A s \in DOMAIN processed_data[b][2] :
            normalize_symptom_name(processed_data[b][2][s][1]) = processed_data[b][2][s][1]

\* A repertory was processed whose symptoms were spelled "PAIN" and
\* "Worse,  at NIGHT ." in the file: one key comes from the table, the other
\* from the clean-up alone.
C20_Witness ==
    /\ Processed
    /\ raw_data = RawMixed
    /\ Has(Get(processed_data, L_MIND), S_pain)
    /\ Has(Get(processed_data, L_HEAD), S_worse_at_night)

\* C25: process_data_structure loses no remedy.  After a load, every
\* non-blank remedy of every raw symptom with remedies is listed in
\* processed_data under the body part and the normalized symptom, also when
\* several raw symptoms of the body part normalize to the same key.
C25_Original ==
    Processed =>
        \A b \in DOMAIN raw_data :
            \A s \in DOMAIN raw_data[b][2] :
                LET body_part == raw_data[b][1]
                    symptom   == raw_data[b][2][s][1]
                    remedies  == raw_data[b][2][s][2]
                IN  ~Falsy(remedies) =>
                        \A remedy \in Range(CleanRemedies(remedies)) :
                            remedy \in Range(RemediesAt(body_part,
                                                        normalize_symptom_name(symptom)))

\* The remedies processed_data lists under a symptom in any body part.
ListedUnder(symptom) ==
    UNION {Range(RemediesAt(b, symptom)) : b \in Keys(processed_data)}

\* C26: remedies_by_symptom is complete and exact.  In the search index of a
\* processed repertory every symptom is a key of remedies_by_symptom, and the
\* entry holds exactly the remedies listed under the symptom in any body part.
C26_Original ==
    Processed =>
        LET index == create_search_index(processed_data).remedies_by_symptom
        IN  \A b \in DOMAIN processed_data :
                \A s \in DOMAIN processed_data[b][2] :
                    LET symptom == processed_data[b][2][s][1]
                    IN  /\ Has(index, symptom)
                        /\ Range(Get(index, symptom)) = ListedUnder(symptom)

\* The symptom and the medicines collected for it, at every point of
\* parse_symptoms_medicines where a symptom has medicines.
BoldOccurrences(bold_texts) ==
    LET states == BoldStates(BoldStart, bold_texts)
    IN  {<<states[k].current_symptom, states[k].current_medicines>> :
            k \in {j \in 1..Len(states) : /\ states[j].current_symptom # None
                                          /\ states[j].current_medicines # <<>>}}

\* C28: in the bold-fragment variant the section's entry of a symptom holds the
\* remedies found at every occurrence of that symptom text, on every page
\* scraped so far and at every place within a page.
C28_Original ==
    \A k \in 1..Len(scraped) : \A occ \in BoldOccurrences(scraped[k]) :
        /\ Has(section_data, occ[1])
        /\ Range(occ[2]) \subseteq Range(Get(section_data, occ[1]))

\* A single capitalized word with or without its trailing period.
IsCapitalizedWord(raw) ==
    LET text == Strip(raw)
    IN  CapWordEnd(text) > 0 /\ EndsAt(text, CapWordEnd(text) + 1)

\* C29: a bold tag that is a single capitalized word, with or without its
\* period, is a medicine name and no page reference: it is kept by
\* extract_bold_text_structured and appended to the current medicines.
C29_Original ==
    \A k \in 1..Len(bold_tags) :
        IsCapitalizedWord(bold_tags[k]) =>
            /\ is_medicine_name(bold_tags[k])
            /\ ~is_page_reference(bold_tags[k])
            /\ Strip(bold_tags[k]) \in Range(extract_bold_text_structured(bold_tags))
            /\ BoldStep(BoldStart, bold_tags[k]).current_medicines
                   = <<RStripChars(Strip(bold_tags[k]), {46})>>

\* C30: scrape_all_pages always reaches its final save.  Whatever pages fail
\* and whenever the user interrupts the loop, a run that is past its page loop
\* has written all_data to the final output file as its last file; under
\* SpecLoop every run gets past the loop, so no run ends without that save.
C30_Original ==
    pc # "loop" =>
        /\ pc = "done"
        /\ saved # <<>>
        /\ saved[Len(saved)] = <<<<"kent_repertory_complete", 0>>, all_data>>

====
